---- MODULE Spec2Model ----
(***************************************************************************)
(* TemporalDB: the causal graph store (app/storage/graph_store.py), the    *)
(* relational -> graph synchroniser (app/storage/sync.py) and the ingest   *)
(* pipeline (app/api/routes/ingest.py, app/ingestion).                     *)
(*                                                                         *)
(* The graph database is a record of four bags: Event nodes, Entity nodes, *)
(* INVOLVES relationships and CAUSES relationships.  Bags, not sets, so    *)
(* that a duplicated node or relationship is a different state from a      *)
(* single one.  Relationship endpoints are named by the endpoint node's id *)
(* property.                                                               *)
(***************************************************************************)
EXTENDS Bags, FiniteSets, Integers, Sequences, TLC

VARIABLES
    graph,      \* the Neo4j database
    seen,       \* observation: which kinds of call outcome have happened
    deletes,    \* the delete call that was the last write to the graph, if one was
    store,      \* the PostgreSQL tables the synchroniser reads
    qorder,     \* the row order PostgreSQL gave each paginated query so far
    runs,       \* number of sync runs started
    proc,       \* per sync process: the locals of sync_document / sync_all
    obs,        \* per sync process: observations about its current operation
    graph0,     \* observation: the graph before the first sync run
    redis,      \* the Redis keys of the deduplicator
    documents,  \* the Document rows added to the session and flushed
    published,  \* the "document ingested" events on the queue
    call,       \* per caller: the locals of its _ingest_text call
    answers,    \* observation: the outcome of every call, in order of end
    uuids,      \* number of uuid4() values drawn so far
    traversal,  \* the last causal traversal call and what it returned
    query,      \* the handle_query call in progress or ended
    resolved,   \* the last resolve_entity call and what it returned
    spans,      \* the last _spans_to_time_range call and what it returned
    pg_entities, \* the entities table as the entity store's session sees it
    upserts,    \* observation: the entity upserts made so far
    planned     \* the last planner call made on its own and what it returned

graphVars == <<graph, seen, deletes>>
syncVars  == <<store, qorder, runs, proc, obs, graph0>>

ingestVars == <<redis, documents, published, call, answers, uuids>>

queryVars == <<traversal, query, resolved, spans>>

entityVars == <<pg_entities, upserts>>

plannerVars == <<planned>>

vars == <<graph, seen, deletes, store, qorder, runs, proc, obs, graph0,
          redis, documents, published, call, answers, uuids,
          traversal, query, resolved, spans, pg_entities, upserts, planned>>

None == "None"

(***************************************************************************)
(* Universes of the values the operations are called with.  UUID objects   *)
(* are strings such as "e1"; their Neo4j form is _str of them.             *)
(***************************************************************************)
EventUuids    == {"e1", "e2"}
EntityUuids   == {"n1"}
RelationUuids == {"r1", "r2"}
Descriptions  == {"d1", "d2"}
Names         == {"Acme", "ACME"}
Confidences   == {1, 2}

\* graph_store._str: UUID -> string, None stays None.
_str(value) == IF value = None THEN None ELSE "uuid:" \o value

\* graph_store._iso: datetime -> ISO-8601 string, None stays None.
_iso(value) == IF value = None THEN None ELSE "iso:" \o value

---------------------------------------------------------------------------
(* Bag helpers. *)

\* Number of copies, in bag B, of the elements of S.
BagSum(B, S) == BagCardinality([x \in S \cap BagToSet(B) |-> B[x]])

\* B without any copy of the elements of M.
BagRemove(B, M) == [x \in BagToSet(B) \ M |-> B[x]]

\* B with every copy of an element x of M replaced by F(x)  (Cypher SET on
\* every matched node or relationship).
BagMapMatched(B, M, F(_)) ==
    LET keep == BagToSet(B) \ M
        imgs == {F(x) : x \in M}
    IN  [y \in keep \cup imgs |->
            (IF y \in keep THEN B[y] ELSE 0) + BagSum(B, {x \in M : F(x) = y})]

EmptyGraph ==
    [events |-> EmptyBag, entities |-> EmptyBag,
     involves |-> EmptyBag, causes |-> EmptyBag]

\* MATCH (e:Event {id: $id})
MatchEvent(G, id) == {n \in BagToSet(G.events) : n.id = id}

\* MATCH (en:Entity {id: $id})
MatchEntity(G, id) == {n \in BagToSet(G.entities) : n.id = id}

---------------------------------------------------------------------------
(* graph_store write operations, as functions from graph to graph. *)

\* A plausible bug: CREATE in place of MERGE.
upsert_event_node_create(G, event_id, description, ts_start, document_id) ==
    [G EXCEPT !.events = @ (+) SetToBag({
        [id |-> _str(event_id), description |-> description,
         ts_start |-> _iso(ts_start), document_id |-> _str(document_id)]})]

\* MERGE (e:Event {id: $id}) SET e.description = ..., e.document_id = ...
\* (event_type, ts_end, confidence and source_sentence are set the same way
\* as description and carry no logic; they are not kept in the node record.)
upsert_event_node(G, event_id, description, ts_start, document_id) ==
    LET params  == [id          |-> _str(event_id),
                    description |-> description,
                    ts_start    |-> _iso(ts_start),
                    document_id |-> _str(document_id)]
        matched == MatchEvent(G, params.id)
    IN  IF matched = {}
        THEN [G EXCEPT !.events = @ (+) SetToBag({params})]
        ELSE [G EXCEPT !.events = BagMapMatched(@, matched, LAMBDA n : params)]

\* A plausible bug: CREATE in place of MERGE.
upsert_entity_node_create(G, entity_id, name, canonical_name, entity_type) ==
    [G EXCEPT !.entities = @ (+) SetToBag({
        [id |-> _str(entity_id), name |-> name,
         canonical_name |-> canonical_name, type |-> entity_type]})]

\* MERGE (en:Entity {id: $id}) SET en.name, en.canonical_name, en.type
upsert_entity_node(G, entity_id, name, canonical_name, entity_type) ==
    LET params  == [id             |-> _str(entity_id),
                    name           |-> name,
                    canonical_name |-> canonical_name,
                    type           |-> entity_type]
        matched == MatchEntity(G, params.id)
    IN  IF matched = {}
        THEN [G EXCEPT !.entities = @ (+) SetToBag({params})]
        ELSE [G EXCEPT !.entities = BagMapMatched(@, matched, LAMBDA n : params)]

\* A plausible bug: MERGE of the endpoints in place of MATCH, which creates a
\* missing endpoint node.
upsert_causal_edge_merge_nodes(G, cause_event_id, effect_event_id, relation_id, confidence) ==
    LET cause_id  == _str(cause_event_id)
        effect_id == _str(effect_event_id)
        G1 == IF MatchEvent(G, cause_id) = {}
              THEN [G EXCEPT !.events = @ (+) SetToBag({
                        [id |-> cause_id, description |-> None,
                         ts_start |-> None, document_id |-> None]})]
              ELSE G
        G2 == IF MatchEvent(G1, effect_id) = {}
              THEN [G1 EXCEPT !.events = @ (+) SetToBag({
                        [id |-> effect_id, description |-> None,
                         ts_start |-> None, document_id |-> None]})]
              ELSE G1
        new == [relation_id |-> _str(relation_id), confidence |-> confidence,
                cause |-> cause_id, effect |-> effect_id]
        matched == {r \in BagToSet(G2.causes) :
                        /\ r.cause = cause_id
                        /\ r.effect = effect_id
                        /\ r.relation_id = new.relation_id}
    IN  IF matched = {}
        THEN [G2 EXCEPT !.causes = @ (+) SetToBag({new})]
        ELSE [G2 EXCEPT !.causes = BagMapMatched(@, matched, LAMBDA r : new)]

\* MATCH (cause:Event {id: $cause_id})
\* MATCH (effect:Event {id: $effect_id})
\* MERGE (cause)-[r:CAUSES {relation_id: $relation_id}]->(effect)
\* SET r.confidence = $confidence, r.evidence = $evidence
\* The MERGE pattern has both endpoints bound: it matches a CAUSES
\* relationship with this relation_id between these two nodes only, and
\* creates one between them when there is none.  (evidence is set the same
\* way as confidence.)
upsert_causal_edge(G, cause_event_id, effect_event_id, relation_id, confidence) ==
    LET cause_id  == _str(cause_event_id)
        effect_id == _str(effect_event_id)
        new == [relation_id |-> _str(relation_id), confidence |-> confidence,
                cause |-> cause_id, effect |-> effect_id]
        matched == {r \in BagToSet(G.causes) :
                        /\ r.cause = cause_id
                        /\ r.effect = effect_id
                        /\ r.relation_id = new.relation_id}
    IN  IF MatchEvent(G, cause_id) = {} \/ MatchEvent(G, effect_id) = {}
        THEN G
        ELSE IF matched = {}
             THEN [G EXCEPT !.causes = @ (+) SetToBag({new})]
             ELSE [G EXCEPT !.causes = BagMapMatched(@, matched, LAMBDA r : new)]

\* A plausible bug: CREATE of the relationship in place of MERGE.
upsert_involves_edge_create(G, event_id, entity_id) ==
    LET new == [event |-> _str(event_id), entity |-> _str(entity_id)]
    IN  IF MatchEvent(G, new.event) = {} \/ MatchEntity(G, new.entity) = {}
        THEN G
        ELSE [G EXCEPT !.involves = @ (+) SetToBag({new})]

\* MATCH (e:Event {id: $event_id})
\* MATCH (en:Entity {id: $entity_id})
\* MERGE (e)-[:INVOLVES]->(en)
upsert_involves_edge(G, event_id, entity_id) ==
    LET new == [event |-> _str(event_id), entity |-> _str(entity_id)]
    IN  IF MatchEvent(G, new.event) = {} \/ MatchEntity(G, new.entity) = {}
        THEN G
        ELSE IF BagIn(new, G.involves)
             THEN G
             ELSE [G EXCEPT !.involves = @ (+) SetToBag({new})]

\* A mutation of delete_event_node: the relationships of the node stay.
delete_event_node_keep_edges(G, event_id) ==
    [G EXCEPT !.events = BagRemove(@, MatchEvent(G, _str(event_id)))]

\* MATCH (e:Event {id: $id}) DETACH DELETE e
delete_event_node(G, event_id) ==
    LET id == _str(event_id)
    IN  [G EXCEPT
            !.events   = BagRemove(@, MatchEvent(G, id)),
            !.involves = BagRemove(@, {r \in BagToSet(@) : r.event = id}),
            !.causes   = BagRemove(@, {r \in BagToSet(@) :
                                          r.cause = id \/ r.effect = id})]

\* MATCH ()-[r:CAUSES {relation_id: $relation_id}]->() DELETE r
delete_causal_edge(G, relation_id) ==
    [G EXCEPT !.causes =
        BagRemove(@, {r \in BagToSet(@) : r.relation_id = _str(relation_id)})]

\* delete_event_node: RETURN count(e) AS deleted; deleted > 0
delete_event_node_deleted(G, event_id) ==
    BagSum(G.events, MatchEvent(G, _str(event_id))) > 0

\* delete_causal_edge: RETURN count(r) AS deleted; deleted > 0
delete_causal_edge_deleted(G, relation_id) ==
    BagSum(G.causes, {r \in BagToSet(G.causes) :
                         r.relation_id = _str(relation_id)}) > 0

\* What a delete call leaves in deletes, until the next write: the function
\* and its return value.
DeleteCall(op, returned) == [op |-> op, returned |-> returned]

NoDelete == DeleteCall(None, FALSE)

---------------------------------------------------------------------------
(* The variables of the synchroniser while it is not part of a specification. *)

EmptyStore ==
    [events |-> {}, entities |-> {}, event_entities |-> {},
     causal_relations |-> {}]

SyncUnused ==
    /\ store = EmptyStore
    /\ qorder = <<>>
    /\ runs = 0
    /\ proc = <<>>
    /\ obs = <<>>
    /\ graph0 = EmptyGraph

(* The variables of the ingest pipeline while it is not part of a
   specification. *)
IngestUnused ==
    /\ redis = <<>>
    /\ documents = {}
    /\ published = <<>>
    /\ call = <<>>
    /\ answers = <<>>
    /\ uuids = 0

(* The variables of the query path while it is not part of a
   specification. *)
QueryUnused ==
    /\ traversal = <<>>
    /\ query = <<>>
    /\ resolved = <<>>
    /\ spans = <<>>

(* The variables of the entity store while it is not part of a
   specification. *)
EntityUnused ==
    /\ pg_entities = {}
    /\ upserts = <<>>

---------------------------------------------------------------------------
(* Spec: the graph store called in any order with any arguments. *)

\* Bound on the number of CAUSES relationships the free-running store holds.
MaxCausesEdges == 2

Init ==
    /\ graph = EmptyGraph
    /\ seen = {}
    /\ deletes = NoDelete
    /\ planned = <<>>
    /\ SyncUnused
    /\ IngestUnused
    /\ QueryUnused
    /\ EntityUnused

UpsertEventNode(event_id, description) ==
    /\ graph' = upsert_event_node(graph, event_id, description, None, "doc1")
    /\ seen' = IF MatchEvent(graph, _str(event_id)) # {}
               THEN seen \cup {"overwrite"} ELSE seen
    /\ deletes' = NoDelete

UpsertEntityNode(entity_id, name) ==
    /\ graph' = upsert_entity_node(graph, entity_id, name, "acme", "ORG")
    /\ seen' = IF MatchEntity(graph, _str(entity_id)) # {}
               THEN seen \cup {"overwrite"} ELSE seen
    /\ deletes' = NoDelete

UpsertCausalEdge(cause_event_id, effect_event_id, relation_id, confidence) ==
    /\ graph' = upsert_causal_edge(graph, cause_event_id, effect_event_id,
                                   relation_id, confidence)
    /\ BagCardinality(graph'.causes) <= MaxCausesEdges
    /\ seen' = IF \/ MatchEvent(graph, _str(cause_event_id)) = {}
                  \/ MatchEvent(graph, _str(effect_event_id)) = {}
               THEN seen \cup {"no_endpoint"}
               ELSE IF \E r \in BagToSet(graph.causes) :
                            r.relation_id = _str(relation_id)
                    THEN seen \cup {"overwrite"} ELSE seen
    /\ deletes' = NoDelete

UpsertInvolvesEdge(event_id, entity_id) ==
    /\ graph' = upsert_involves_edge(graph, event_id, entity_id)
    /\ seen' = IF \/ MatchEvent(graph, _str(event_id)) = {}
                  \/ MatchEntity(graph, _str(entity_id)) = {}
               THEN seen \cup {"no_endpoint"}
               ELSE IF BagIn([event |-> _str(event_id),
                              entity |-> _str(entity_id)], graph.involves)
                    THEN seen \cup {"overwrite"} ELSE seen
    /\ deletes' = NoDelete

DeleteEventNode(event_id) ==
    /\ graph' = delete_event_node(graph, event_id)
    /\ deletes' = DeleteCall("delete_event_node",
                             delete_event_node_deleted(graph, event_id))
    /\ UNCHANGED seen

DeleteCausalEdge(relation_id) ==
    /\ graph' = delete_causal_edge(graph, relation_id)
    /\ deletes' = DeleteCall("delete_causal_edge",
                             delete_causal_edge_deleted(graph, relation_id))
    /\ UNCHANGED seen

GraphNext ==
    \/ \E e \in EventUuids, d \in Descriptions : UpsertEventNode(e, d)
    \/ \E n \in EntityUuids, nm \in Names : UpsertEntityNode(n, nm)
    \/ \E c \in EventUuids, e \in EventUuids, r \in RelationUuids,
          k \in Confidences : UpsertCausalEdge(c, e, r, k)
    \/ \E e \in EventUuids, n \in EntityUuids : UpsertInvolvesEdge(e, n)
    \/ \E e \in EventUuids : DeleteEventNode(e)
    \/ \E r \in RelationUuids : DeleteCausalEdge(r)

Next ==
    GraphNext /\ UNCHANGED syncVars /\ UNCHANGED ingestVars
              /\ UNCHANGED queryVars /\ UNCHANGED entityVars
              /\ UNCHANGED plannerVars

Spec == Init /\ [][Next]_vars

---------------------------------------------------------------------------
(* Claims about the graph store. *)

EventIdsOf(G)  == {n.id : n \in BagToSet(G.events)}
EntityIdsOf(G) == {n.id : n \in BagToSet(G.entities)}

\* C2: after any sequence of upsert_event_node, upsert_entity_node and
\* upsert_involves_edge calls (and of the other graph writes) the graph holds
\* at most one Event node per event id, at most one Entity node per entity
\* id and at most one INVOLVES relationship per (event id, entity id) pair:
\* a repeated call overwrites the properties of the one node it matches.
C2_OneNodePerId ==
    /\ \A id \in EventIdsOf(graph) :
            BagSum(graph.events, MatchEvent(graph, id)) = 1
    /\ \A id \in EntityIdsOf(graph) :
            BagSum(graph.entities, MatchEntity(graph, id)) = 1
    /\ \A r \in BagToSet(graph.involves) : CopiesIn(r, graph.involves) = 1

\* A repeated upsert has happened, and nodes of both labels and an INVOLVES
\* relationship are in the graph.
C2_Witness ==
    /\ "overwrite" \in seen
    /\ EventIdsOf(graph) = {_str(e) : e \in EventUuids}
    /\ EntityIdsOf(graph) # {}
    /\ BagCardinality(graph.involves) = 2

\* C3: after any sequence of upsert_causal_edge calls the graph holds at most
\* one CAUSES relationship per relation id, whatever cause and effect ids a
\* repeated call passes.
C3_OneCausesEdgePerRelationId ==
    \A r \in BagToSet(graph.causes) :
        BagSum(graph.causes,
               {q \in BagToSet(graph.causes) : q.relation_id = r.relation_id}) = 1

\* Relationships the step from G to H added (new elements or more copies).
AddedEdges(G, H) ==
    {r \in BagToSet(H.involves) : CopiesIn(r, H.involves) > CopiesIn(r, G.involves)}
    \cup
    {r \in BagToSet(H.causes) : CopiesIn(r, H.causes) > CopiesIn(r, G.causes)}

NoDanglingEdge(G) ==
    /\ \A r \in BagToSet(G.causes) :
            r.cause \in EventIdsOf(G) /\ r.effect \in EventIdsOf(G)
    /\ \A r \in BagToSet(G.involves) :
            r.event \in EventIdsOf(G) /\ r.entity \in EntityIdsOf(G)

\* C4: both endpoints of every CAUSES and INVOLVES relationship are existing
\* nodes, in every state; a step that adds a relationship adds it between
\* nodes that existed before the step and changes no node, so an edge upsert
\* with an absent endpoint creates neither an edge nor a node.
C4_EdgesBetweenExistingNodes ==
    [][ /\ NoDanglingEdge(graph')
        /\ AddedEdges(graph, graph') # {} =>
              /\ NoDanglingEdge([graph EXCEPT !.involves = graph'.involves,
                                              !.causes = graph'.causes])
              /\ graph'.events = graph.events
              /\ graph'.entities = graph.entities
        /\ ("no_endpoint" \in seen' /\ "no_endpoint" \notin seen) =>
              graph' = graph
      ]_vars

\* An edge upsert was called with an absent endpoint, and the graph holds
\* relationships of both types.
C4_Witness ==
    /\ "no_endpoint" \in seen
    /\ graph.causes # EmptyBag
    /\ graph.involves # EmptyBag

---------------------------------------------------------------------------
(* The relational store read by the synchroniser.  It does not change while *)
(* the synchroniser runs; the initial state picks one store of Stores.      *)

DocUuids == {"doc1", "doc2", "doc3"}

\* events of doc1: e1, e2 (inserted in the same instant); of doc2: e3; doc3
\* has no event.
EventRows ==
    {[id |-> "e1", description |-> "d1", ts_start |-> "t1",
      document_id |-> "doc1", created_at |-> 1],
     [id |-> "e2", description |-> "d2", ts_start |-> None,
      document_id |-> "doc1", created_at |-> 1],
     [id |-> "e3", description |-> "d1", ts_start |-> "t2",
      document_id |-> "doc2", created_at |-> 2]}

EntityRows ==
    {[id |-> "n1", name |-> "Acme", canonical_name |-> "acme",
      type |-> "ORG", created_at |-> 1],
     [id |-> "n2", name |-> "Bob", canonical_name |-> "bob",
      type |-> "PERSON", created_at |-> 2]}

Link(e, n) == [event_id |-> e, entity_id |-> n]

LinkChoices ==
    {{Link("e1", "n1"), Link("e2", "n1"), Link("e3", "n2")},
     {Link("e1", "n2"), Link("e1", "n1"), Link("e3", "n1")}}

Rel(r, c, e, k, t) ==
    [id |-> r, cause_event_id |-> c, effect_event_id |-> e,
     confidence |-> k, created_at |-> t]

RelChoices ==
    {{Rel("r1", "e1", "e3", 1, 1), Rel("r2", "e2", "e1", 2, 2)},
     {Rel("r1", "e3", "e1", 2, 1)}}

Stores ==
    {[events |-> EventRows, entities |-> EntityRows,
      event_entities |-> L, causal_relations |-> R] :
        L \in LinkChoices, R \in RelChoices}

\* The order of UUID values (ORDER BY event_id, entity_id).
UuidOrder == <<"e1", "e2", "e3", "n1", "n2">>
UuidRank(u) == CHOOSE i \in DOMAIN UuidOrder : UuidOrder[i] = u

\* Every sequence that lists the rows of S once each: the orders in which a
\* SELECT may return S.
Orders(S) ==
    {o \in [1..Cardinality(S) -> S] :
        \A i, j \in 1..Cardinality(S) : i # j => o[i] # o[j]}

\* The orders in which SELECT ... ORDER BY Key ASC may return S: rows with
\* equal keys come in any order.
OrderedBy(S, Key(_)) ==
    {o \in Orders(S) :
        \A i, j \in 1..Cardinality(S) : i < j => Key(o[i]) <= Key(o[j])}

Min(a, b) == IF a < b THEN a ELSE b

\* .offset(offset).limit(limit) of a result in the given order.
Page(order, offset, limit) ==
    SubSeq(order, offset + 1, Min(offset + limit, Len(order)))

\* Event.entities (relationship through event_entities), by entity id.
EventEntities(S, event) ==
    LET rows == {n \in S.entities :
                    Link(event.id, n.id) \in S.event_entities}
    IN  CHOOSE o \in OrderedBy(rows, LAMBDA n : UuidRank(n.id)) : TRUE

\* for event in events: for entity in event.entities: ...
RECURSIVE AllEventEntities(_, _)
AllEventEntities(S, events) ==
    IF events = <<>> THEN <<>>
    ELSE EventEntities(S, Head(events)) \o AllEventEntities(S, Tail(events))

\* if entity.id not in seen_entity_ids: add it, append the entity
RECURSIVE Unseen(_, _)
Unseen(entities, seen_entity_ids) ==
    IF entities = <<>> THEN <<>>
    ELSE IF Head(entities).id \in seen_entity_ids
         THEN Unseen(Tail(entities), seen_entity_ids)
         ELSE <<Head(entities)>>
              \o Unseen(Tail(entities), seen_entity_ids \cup {Head(entities).id})

\* A plausible bug: no seen_entity_ids test.
unique_entities_all(S, events) == AllEventEntities(S, events)

\* sync_document, step 2: the unique entity list of the loaded events.
unique_entities(S, events) == Unseen(AllEventEntities(S, events), {})

\* [e.id for e in events]
IdsOf(events) == {events[i].id : i \in DOMAIN events}

\* select(EventEntity).where(EventEntity.event_id.in_(event_ids))
InvolvesRowsOf(S, event_ids) ==
    {l \in S.event_entities : l.event_id \in event_ids}

\* A plausible bug: the CAUSES query filtered on the effect event.
CausalRowsOfEffect(S, event_ids) ==
    {r \in S.causal_relations : r.effect_event_id \in event_ids}

\* select(CausalRelation).where(CausalRelation.cause_event_id.in_(event_ids))
CausalRowsOf(S, event_ids) ==
    {r \in S.causal_relations : r.cause_event_id \in event_ids}

---------------------------------------------------------------------------
(* SpecSync: sync_document and sync_all run by concurrent processes.  A     *)
(* step is one graph write (one await of a graph_store upsert) or the code  *)
(* between two writes; a graph write may raise, which aborts the run.       *)

Procs == {1, 2}

\* Bound on the number of sync runs started in one behaviour.
MaxRuns == 2

\* Bound on the batch_size sync_all is called with.
MaxBatchSize == 2

Phases == <<"events", "entities", "involves", "causes">>

\* SyncResult()
ZeroResult ==
    [event_nodes |-> 0, entity_nodes |-> 0, involves_edges |-> 0,
     causal_edges |-> 0]

IdleProc ==
    [events |-> <<>>, op |-> "none", offset |-> 0, pc |-> "idle",
     phase |-> "none", doc |-> None, todo |-> <<>>, batch_len |-> 0,
     batch_size |-> 0, result |-> ZeroResult, log |-> <<>>]

IdleObs ==
    [g0 |-> EmptyGraph, solo |-> TRUE, mode |-> "none", prefix |-> 0]

\* A graph left by an earlier state of the relational store: e1 with its
\* former description, and an event whose row has since been deleted.
StaleGraph ==
    upsert_event_node(
        upsert_event_node(EmptyGraph, "e1", "d0", None, "doc1"),
        "e0", "d0", None, "doc1")

SyncInit ==
    /\ graph \in {EmptyGraph, StaleGraph}
    /\ seen = {}
    /\ deletes = NoDelete
    /\ planned = <<>>
    /\ store \in Stores
    /\ qorder = <<>>
    /\ runs = 0
    /\ proc = [p \in Procs |-> IdleProc]
    /\ obs = [p \in Procs |-> IdleObs]
    /\ graph0 = graph
    /\ IngestUnused
    /\ QueryUnused
    /\ EntityUnused

\* The observations of process p when it starts operation (op, arg): a retry
\* of the run that aborted, a repetition of the run it completed with no
\* other writer in between, or a first run.  g0 is the graph the operation
\* started from, prefix the number of writes the aborted run had made.
StartObs(p, op, arg) ==
    LET same  == /\ proc[p].op = op
                 /\ IF op = "sync_document" THEN proc[p].doc = arg
                                            ELSE proc[p].batch_size = arg
        retry == same /\ proc[p].pc = "aborted"
        again == same /\ proc[p].pc = "done" /\ obs[p].solo
    IN  IF retry
        THEN [obs[p] EXCEPT !.mode = "retry"]
        ELSE [g0 |-> graph, solo |-> TRUE,
              mode |-> IF again THEN "again" ELSE "first", prefix |-> 0]

\* sync_document up to its first graph write: the event query and the early
\* return when the document has no event.
StartSyncDocument(p, document_id) ==
    /\ proc[p].pc \in {"idle", "done", "aborted"}
    /\ runs < MaxRuns
    /\ \E events \in Orders({e \in store.events : e.document_id = document_id}) :
          proc' = [proc EXCEPT ![p] =
                     IF events = <<>>
                     THEN [IdleProc EXCEPT !.op = "sync_document", !.pc = "done",
                                           !.doc = document_id]
                     ELSE [IdleProc EXCEPT !.op = "sync_document", !.pc = "write",
                                           !.phase = "events",
                                           !.doc = document_id,
                                           !.events = events,
                                           !.todo = events,
                                           !.batch_len = Len(events)]]
    /\ obs' = [obs EXCEPT ![p] = StartObs(p, "sync_document", document_id)]
    /\ runs' = runs + 1
    /\ UNCHANGED <<graph, seen, deletes, store, qorder, graph0, ingestVars, queryVars, entityVars, plannerVars>>

\* sync_all up to its first query.
StartSyncAll(p, batch_size) ==
    /\ proc[p].pc \in {"idle", "done", "aborted"}
    /\ runs < MaxRuns
    /\ proc' = [proc EXCEPT ![p] =
                  [IdleProc EXCEPT !.op = "sync_all", !.pc = "fetch",
                                   !.phase = "events",
                                   !.batch_size = batch_size]]
    /\ obs' = [obs EXCEPT ![p] = StartObs(p, "sync_all", batch_size)]
    /\ runs' = runs + 1
    /\ UNCHANGED <<graph, seen, deletes, store, qorder, graph0, ingestVars, queryVars, entityVars, plannerVars>>

\* The graph_store call that a write loop makes for one row.
ApplyWrite(G, w) ==
    LET row == w[2]
    IN  CASE w[1] = "events" ->
                upsert_event_node(G, row.id, row.description, row.ts_start,
                                  row.document_id)
          [] w[1] = "entities" ->
                upsert_entity_node(G, row.id, row.name, row.canonical_name,
                                   row.type)
          [] w[1] = "involves" ->
                upsert_involves_edge(G, row.event_id, row.entity_id)
          [] w[1] = "causes" ->
                upsert_causal_edge(G, row.cause_event_id, row.effect_event_id,
                                   row.id, row.confidence)

\* One iteration of the write loop of process p (_sync_events, _sync_entities,
\* _sync_involves or _sync_causal): the upsert of the next row.  The write
\* is recorded in the log of the run.
GraphWrite(p, phase) ==
    /\ proc[p].pc = "write"
    /\ proc[p].phase = phase
    /\ proc[p].todo # <<>>
    /\ LET w == <<phase, Head(proc[p].todo)>>
       IN  /\ graph' = ApplyWrite(graph, w)
           /\ proc' = [proc EXCEPT ![p].todo = Tail(@), ![p].log = Append(@, w)]
    /\ obs' = [q \in Procs |->
                 IF q = p THEN obs[q] ELSE [obs[q] EXCEPT !.solo = FALSE]]
    /\ UNCHANGED <<seen, deletes, store, qorder, runs, graph0, ingestVars, queryVars, entityVars, plannerVars>>

\* _sync_events: one iteration.
WriteEventNode(p) == GraphWrite(p, "events")

\* _sync_entities: one iteration.
WriteEntityNode(p) == GraphWrite(p, "entities")

\* _sync_involves: one iteration.
WriteInvolvesEdge(p) == GraphWrite(p, "involves")

\* _sync_causal: one iteration.
WriteCausalEdge(p) == GraphWrite(p, "causes")

\* The graph write that is next raises: the run ends there.
Abort(p) ==
    /\ proc[p].pc = "write"
    /\ proc[p].todo # <<>>
    /\ proc' = [proc EXCEPT ![p].pc = "aborted"]
    /\ obs' = [obs EXCEPT ![p].prefix = Len(proc[p].log)]
    /\ UNCHANGED <<graph, seen, deletes, store, qorder, runs, graph0, ingestVars, queryVars, entityVars, plannerVars>>

\* The counter of SyncResult that a phase fills.
Counted(result, phase, n) ==
    CASE phase = "events"   -> [result EXCEPT !.event_nodes = @ + n]
      [] phase = "entities" -> [result EXCEPT !.entity_nodes = @ + n]
      [] phase = "involves" -> [result EXCEPT !.involves_edges = @ + n]
      [] phase = "causes"   -> [result EXCEPT !.causal_edges = @ + n]

\* sync_document between two write loops: the count of the finished loop,
\* then the list of the next one.
DocNextPhase(p) ==
    /\ proc[p].op = "sync_document"
    /\ proc[p].pc = "write"
    /\ proc[p].todo = <<>>
    /\ LET me       == proc[p]
           result   == Counted(me.result, me.phase, me.batch_len)
           enter(phase, rows) ==
               proc' = [proc EXCEPT ![p].result = result, ![p].phase = phase,
                                    ![p].todo = rows,
                                    ![p].batch_len = Len(rows)]
       IN  \/ /\ me.phase = "events"
              /\ enter("entities", unique_entities(store, me.events))
           \/ /\ me.phase = "entities"
              /\ \E rows \in Orders(InvolvesRowsOf(store, IdsOf(me.events))) :
                    enter("involves", rows)
           \/ /\ me.phase = "involves"
              /\ \E rows \in Orders(CausalRowsOf(store, IdsOf(me.events))) :
                    enter("causes", rows)
           \/ /\ me.phase = "causes"
              /\ proc' = [proc EXCEPT ![p].result = result, ![p].pc = "done"]
    /\ UNCHANGED <<graph, seen, deletes, store, qorder, runs, obs, graph0, ingestVars, queryVars, entityVars, plannerVars>>

\* The orders in which the paginated query of a sync_all pass may return its
\* table: events, entities and causal relations by created_at, event_entities
\* by (event_id, entity_id).
PassOrders(S, phase) ==
    CASE phase = "events"   -> OrderedBy(S.events, LAMBDA r : r.created_at)
      [] phase = "entities" -> OrderedBy(S.entities, LAMBDA r : r.created_at)
      [] phase = "involves" ->
            OrderedBy(S.event_entities,
                      LAMBDA r : 10 * UuidRank(r.event_id) + UuidRank(r.entity_id))
      [] phase = "causes"   ->
            OrderedBy(S.causal_relations, LAMBDA r : r.created_at)

\* The proc record of a sync_all run that leaves the pass it is in.
NextPass(me) ==
    CASE me.phase = "events"   -> [me EXCEPT !.phase = "entities", !.offset = 0, !.pc = "fetch"]
      [] me.phase = "entities" -> [me EXCEPT !.phase = "involves", !.offset = 0, !.pc = "fetch"]
      [] me.phase = "involves" -> [me EXCEPT !.phase = "causes", !.offset = 0, !.pc = "fetch"]
      [] me.phase = "causes"   -> [me EXCEPT !.pc = "done"]

\* sync_all: the query of one page.  PostgreSQL answers a query it has
\* answered before (same table, offset and limit, unchanged rows) the same
\* way; rows with equal sort keys may come in a different order for a
\* different offset.
AllFetch(p) ==
    /\ proc[p].op = "sync_all"
    /\ proc[p].pc = "fetch"
    /\ LET me  == proc[p]
           key == <<me.phase, me.offset, me.batch_size>>
       IN  \E order \in PassOrders(store, me.phase) :
              /\ key \in DOMAIN qorder => order = qorder[key]
              /\ qorder' = IF key \in DOMAIN qorder THEN qorder
                           ELSE qorder @@ (key :> order)
              /\ LET batch == Page(order, me.offset, me.batch_size)
                 IN  proc' = [proc EXCEPT ![p] =
                                IF batch = <<>>
                                THEN NextPass(me)
                                ELSE [me EXCEPT !.pc = "write", !.todo = batch,
                                                !.batch_len = Len(batch)]]
    /\ UNCHANGED <<graph, seen, deletes, store, runs, obs, graph0, ingestVars, queryVars, entityVars, plannerVars>>

\* sync_all after the writes of one page: total += count, offset += len(batch),
\* and the pass ends on a short page.
AllPageDone(p) ==
    /\ proc[p].op = "sync_all"
    /\ proc[p].pc = "write"
    /\ proc[p].todo = <<>>
    /\ LET me   == proc[p]
           done == [me EXCEPT !.result = Counted(@, me.phase, me.batch_len),
                              !.offset = @ + me.batch_len]
       IN  proc' = [proc EXCEPT ![p] =
                      IF me.batch_len < me.batch_size
                      THEN NextPass(done)
                      ELSE [done EXCEPT !.pc = "fetch"]]
    /\ UNCHANGED <<graph, seen, deletes, store, qorder, runs, obs, graph0, ingestVars, queryVars, entityVars, plannerVars>>

\* SpecSync: one process runs sync_document or sync_all and then runs the
\* same operation again, after it completed or after it aborted.
Sequential == {1}

SyncNext ==
    \/ \E p \in Sequential, d \in DocUuids :
          /\ proc[p].pc = "idle"
             \/ (proc[p].op = "sync_document" /\ proc[p].doc = d)
          /\ StartSyncDocument(p, d)
    \/ \E p \in Sequential, b \in 1..MaxBatchSize :
          /\ proc[p].pc = "idle"
             \/ (proc[p].op = "sync_all" /\ proc[p].batch_size = b)
          /\ StartSyncAll(p, b)
    \/ \E p \in Sequential : WriteEventNode(p)
    \/ \E p \in Sequential : WriteEntityNode(p)
    \/ \E p \in Sequential : WriteInvolvesEdge(p)
    \/ \E p \in Sequential : WriteCausalEdge(p)
    \/ \E p \in Sequential : Abort(p)
    \/ \E p \in Sequential : DocNextPhase(p)
    \/ \E p \in Sequential : AllFetch(p)
    \/ \E p \in Sequential : AllPageDone(p)

SpecSync == SyncInit /\ [][SyncNext]_vars

\* SpecConcurrent: every process runs sync_document once, for any document,
\* and the graph writes of the processes interleave.
ConcurrentNext ==
    \/ \E p \in Procs, d \in DocUuids :
          proc[p].pc = "idle" /\ StartSyncDocument(p, d)
    \/ \E p \in Procs : WriteEventNode(p)
    \/ \E p \in Procs : WriteEntityNode(p)
    \/ \E p \in Procs : WriteInvolvesEdge(p)
    \/ \E p \in Procs : WriteCausalEdge(p)
    \/ \E p \in Procs : DocNextPhase(p)

SpecConcurrent == SyncInit /\ [][ConcurrentNext]_vars

---------------------------------------------------------------------------
(* Claims about the synchroniser. *)

RECURSIVE ApplyWrites(_, _)
\* The graph after the writes ws, made one after the other from graph G.
ApplyWrites(G, ws) ==
    IF ws = <<>> THEN G ELSE ApplyWrites(ApplyWrite(G, Head(ws)), Tail(ws))

PhaseRank(phase) == CHOOSE i \in DOMAIN Phases : Phases[i] = phase

PhasesOf(log) == {log[i][1] : i \in DOMAIN log}

\* No node id is on two nodes and no relationship exists twice.
NoDuplicate(G) ==
    /\ \A id \in EventIdsOf(G) : BagSum(G.events, MatchEvent(G, id)) = 1
    /\ \A id \in EntityIdsOf(G) : BagSum(G.entities, MatchEntity(G, id)) = 1
    /\ \A r \in BagToSet(G.involves) : CopiesIn(r, G.involves) = 1
    /\ \A r \in BagToSet(G.causes) :
          BagSum(G.causes, {q \in BagToSet(G.causes) :
                                q.relation_id = r.relation_id}) = 1

\* C1: a second sync_document run for the same document, started in the
\* state the first run left (same relational store, no other graph writer),
\* ends in exactly that state, and no node or relationship is duplicated.
C1_SecondRunChangesNothing ==
    \A p \in Procs :
        (/\ proc[p].op = "sync_document"
         /\ proc[p].pc = "done"
         /\ obs[p].mode = "again"
         /\ obs[p].solo)
        => /\ graph = obs[p].g0
           /\ NoDuplicate(graph)

\* A second run has completed for a document whose sync writes nodes and
\* relationships of every kind.
C1_Witness ==
    \E p \in Procs :
        /\ proc[p].op = "sync_document"
        /\ proc[p].pc = "done"
        /\ obs[p].mode = "again"
        /\ obs[p].solo
        /\ PhasesOf(proc[p].log) = {"events", "entities", "involves", "causes"}
        /\ graph.causes # EmptyBag

\* The writes of sync_document for the documents D taken together: every
\* event node, then every entity node, then the relationships.
NodesFirstWrites(S, D) ==
    LET Tag(phase, rows) == [i \in DOMAIN rows |-> <<phase, rows[i]>>]
        SeqOf(rows)      == CHOOSE o \in Orders(rows) : TRUE
        events == SeqOf({e \in S.events : e.document_id \in D})
    IN  Tag("events", events)
        \o Tag("entities", unique_entities(S, events))
        \o Tag("involves", SeqOf(InvolvesRowsOf(S, IdsOf(events))))
        \o Tag("causes", SeqOf(CausalRowsOf(S, IdsOf(events))))

\* C5: when sync_document runs concurrently for several documents, every
\* interleaving of the graph writes ends in the same final graph: the one
\* of the interleaving that writes every node before any relationship.
C5_EveryInterleavingSameGraph ==
    (\A p \in Procs : proc[p].pc = "done")
    => graph = ApplyWrites(graph0,
                           NodesFirstWrites(store, {proc[p].doc : p \in Procs}))

ReferencedEntityIds(S, d) ==
    {l.entity_id : l \in {k \in S.event_entities :
        \E e \in S.events : e.id = k.event_id /\ e.document_id = d}}

\* C7: within one sync_document run the event-node upserts come first, then
\* the entity-node upserts, then the INVOLVES upserts, then the CAUSES
\* upserts; and every entity referenced by the document's events is
\* upserted exactly once.
C7_WriteOrderAndUniqueEntities ==
    \A p \in Procs :
        proc[p].op = "sync_document" =>
            LET log == proc[p].log
                ents == {i \in DOMAIN log : log[i][1] = "entities"}
            IN  /\ \A i, j \in DOMAIN log :
                      i < j => PhaseRank(log[i][1]) <= PhaseRank(log[j][1])
                /\ \A i, j \in ents : log[i][2].id = log[j][2].id => i = j
                /\ (proc[p].phase \in {"involves", "causes"}) =>
                      {log[i][2].id : i \in ents}
                          = ReferencedEntityIds(store, proc[p].doc)

\* A run has completed for a document with two events that reference the
\* same entity, and it wrote nodes and relationships of every kind.
C7_Witness ==
    \E p \in Procs :
        /\ proc[p].op = "sync_document"
        /\ proc[p].pc = "done"
        /\ PhasesOf(proc[p].log) = {"events", "entities", "involves", "causes"}
        /\ \E n \in store.entities :
              /\ Link("e1", n.id) \in store.event_entities
              /\ Link("e2", n.id) \in store.event_entities

\* The graph that mirrors the relational store S row for row.
Projection(S) ==
    [events |-> SetToBag({[id |-> _str(r.id), description |-> r.description,
                           ts_start |-> _iso(r.ts_start),
                           document_id |-> _str(r.document_id)] :
                          r \in S.events}),
     entities |-> SetToBag({[id |-> _str(r.id), name |-> r.name,
                             canonical_name |-> r.canonical_name,
                             type |-> r.type] : r \in S.entities}),
     involves |-> SetToBag({[event |-> _str(r.event_id),
                             entity |-> _str(r.entity_id)] :
                            r \in S.event_entities}),
     causes |-> SetToBag({[relation_id |-> _str(r.id),
                           confidence |-> r.confidence,
                           cause |-> _str(r.cause_event_id),
                           effect |-> _str(r.effect_event_id)] :
                          r \in S.causal_relations})]

\* C8: from an empty graph, one complete sync_all run, for any batch_size,
\* leaves exactly the projection of the relational store.
C8_SyncAllRebuildsProjection ==
    \A p \in Procs :
        (/\ proc[p].op = "sync_all"
         /\ proc[p].pc = "done"
         /\ obs[p].mode = "first"
         /\ obs[p].g0 = EmptyGraph)
        => graph = Projection(store)

---------------------------------------------------------------------------
(***************************************************************************)
(* The ingest pipeline: normalize, the Redis deduplicator and               *)
(* _ingest_text.  A text is a sequence of characters; a character is a      *)
(* one-character string, or the name of a code point outside ASCII.         *)
(***************************************************************************)

\* What the pattern [\x00-\x08\x0b\x0c\x0e-\x1f\x7f] matches.
ControlChars == {"\f", "U+0000"}

\* What str.strip() strips.
Whitespace == {" ", "\t", "\n", "\r", "\f"}

RECURSIVE nfc(_)
\* unicodedata.normalize("NFC", text): a base letter and its combining mark
\* become the composed letter.
nfc(text) ==
    IF Len(text) < 2 THEN text
    ELSE IF text[1] = "e" /\ text[2] = "U+0301"
         THEN <<"U+00E9">> \o nfc(SubSeq(text, 3, Len(text)))
         ELSE <<text[1]>> \o nfc(Tail(text))

remove_control(text) == SelectSeq(text, LAMBDA c : c \notin ControlChars)

RECURSIVE crlf_to_lf(_)
\* text.replace("\r\n", "\n")
crlf_to_lf(text) ==
    IF Len(text) < 2 THEN text
    ELSE IF text[1] = "\r" /\ text[2] = "\n"
         THEN <<"\n">> \o crlf_to_lf(SubSeq(text, 3, Len(text)))
         ELSE <<text[1]>> \o crlf_to_lf(Tail(text))

\* text.replace("\r", "\n")
cr_to_lf(text) ==
    [i \in DOMAIN text |-> IF text[i] = "\r" THEN "\n" ELSE text[i]]

RECURSIVE split(_)
\* text.split("\n")
split(text) ==
    IF \A i \in DOMAIN text : text[i] # "\n" THEN <<text>>
    ELSE LET i == CHOOSE k \in DOMAIN text :
                      /\ text[k] = "\n"
                      /\ \A j \in 1..(k - 1) : text[j] # "\n"
         IN  <<SubSeq(text, 1, i - 1)>> \o split(SubSeq(text, i + 1, Len(text)))

RECURSIVE lstrip(_)
lstrip(text) ==
    IF text # <<>> /\ Head(text) \in Whitespace THEN lstrip(Tail(text))
    ELSE text

RECURSIVE rstrip(_)
rstrip(text) ==
    IF text # <<>> /\ text[Len(text)] \in Whitespace
    THEN rstrip(SubSeq(text, 1, Len(text) - 1))
    ELSE text

\* str.strip()
strip(text) == rstrip(lstrip(text))

RECURSIVE collapse_spaces(_)
\* re.sub(r"[ \t]+", " ", line)
collapse_spaces(line) ==
    IF line = <<>> THEN line
    ELSE IF Head(line) \in {" ", "\t"}
         THEN IF Len(line) >= 2 /\ line[2] \in {" ", "\t"}
              THEN collapse_spaces(Tail(line))
              ELSE <<" ">> \o collapse_spaces(Tail(line))
         ELSE <<Head(line)>> \o collapse_spaces(Tail(line))

RECURSIVE join(_)
\* "\n".join(lines)
join(lines) ==
    IF Len(lines) = 0 THEN <<>>
    ELSE IF Len(lines) = 1 THEN lines[1]
    ELSE lines[1] \o <<"\n">> \o join(Tail(lines))

RECURSIVE collapse_newlines(_)
\* re.sub(r"\n{3,}", "\n\n", text)
collapse_newlines(text) ==
    IF text = <<>> THEN text
    ELSE IF Len(text) >= 3 /\ \A i \in 1..3 : text[i] = "\n"
         THEN collapse_newlines(Tail(text))
         ELSE <<Head(text)>> \o collapse_newlines(Tail(text))

normalize(text) ==
    LET cleaned == cr_to_lf(crlf_to_lf(remove_control(nfc(text))))
        split_lines == split(cleaned)
        lines == [i \in DOMAIN split_lines |->
                     collapse_spaces(strip(split_lines[i]))]
    IN  strip(collapse_newlines(join(lines)))

_REDIS_KEY_PREFIX == "dedup:doc:"

\* The SHA-256 digest of the text; two texts have the same digest only if
\* they are the same text.
compute_fingerprint(text) == <<"sha256", text>>

\* The Redis key check_and_register looks up and sets.
dedup_key(text) == <<_REDIS_KEY_PREFIX, compute_fingerprint(text)>>

redis_get(R, key) == IF key \in DOMAIN R THEN R[key] ELSE None

redis_set(R, key, value) ==
    [k \in DOMAIN R \cup {key} |-> IF k = key THEN value ELSE R[k]]

\* A mutation of DeduplicationResult: the duplicate is given the new id.
DeduplicationResult_new_id(existing_id, document_id) ==
    [document_id |-> document_id,
     is_duplicate |-> existing_id \notin {None, ""}]

\* A mutation of DeduplicationResult: no text is reported as a duplicate.
DeduplicationResult_never_duplicate(existing_id, document_id) ==
    [document_id |-> document_id, is_duplicate |-> FALSE]

\* What check_and_register returns, from what redis.get returned.
DeduplicationResult(existing_id, document_id) ==
    IF existing_id \notin {None, ""}
    THEN [document_id |-> existing_id, is_duplicate |-> TRUE]
    ELSE [document_id |-> document_id, is_duplicate |-> FALSE]

\* str(uuid.uuid4()): a value no earlier call drew.
uuid4(drawn) == "doc-" \o ToString(drawn + 1)

\* A mutation of publish_guarded: the failure of the publish propagates.
publish_guarded_fatal(queue, document_id, sent) ==
    [published |-> IF sent THEN Append(queue, document_id) ELSE queue,
     raised |-> ~sent]

\* The try/except around publish_document_ingested: the event is on the
\* queue if the publish succeeded, and no exception leaves the block.
publish_guarded(queue, document_id, sent) ==
    [published |-> IF sent THEN Append(queue, document_id) ELSE queue,
     raised |-> FALSE]

---------------------------------------------------------------------------
(* SpecIngest: _ingest_text called again and again, one call at a time. *)

\* Bound on the number of _ingest_text calls.
MaxIngests == 3

IngestCallers == {1, 2}

Sources == {"api", "upload"}

\* The raw texts the calls are made with.
RawTexts ==
    {<<"a", " ", "b">>,
     <<" ", "a", "\t", " ", "b", "\r", "\n">>,
     <<"a", "\f", " ", "b", "U+0000">>,
     <<"a", "\n", "\n", "\n", "\n", "b">>,
     <<"a", " ", "\r", "\r", "\n", "\t", "b">>,
     <<"e", "U+0301">>,
     <<"U+00E9">>,
     <<" ", "\f", "\r", "\n", "\t">>,
     <<>>}

IdleCall ==
    [pc |-> "idle", normalised |-> <<>>, source |-> None,
     new_doc_id |-> None]

IngestInit ==
    /\ graph = EmptyGraph
    /\ seen = {}
    /\ deletes = NoDelete
    /\ planned = <<>>
    /\ SyncUnused
    /\ redis = <<>>
    /\ documents = {}
    /\ published = <<>>
    /\ call = [c \in IngestCallers |-> IdleCall]
    /\ answers = <<>>
    /\ uuids = 0
    /\ QueryUnused
    /\ EntityUnused

\* The outcome of a call that ended: the response, or the exception.
Answer(c, status, document_id, publish_failed) ==
    [document_id |-> document_id, text |-> c.normalised, source |-> c.source,
     status |-> status, publish_failed |-> publish_failed]

InFlight == {c \in IngestCallers : call[c].pc \in {"get", "set", "flush", "publish"}}

\* A mutation of rejects_text: no text is rejected.
rejects_text_never(normalised) == FALSE

\* "if not normalised": the text the 422 error is raised for.
rejects_text(normalised) == normalised = <<>>

\* _ingest_text up to the first await: normalise, reject the empty text,
\* draw the new document id.
IngestText(c, raw_text, source) ==
    /\ call[c].pc \in {"idle", "returned", "raised"}
    /\ Len(answers) + Cardinality(InFlight) < MaxIngests
    /\ LET normalised == normalize(raw_text)
           started == [pc |-> "get", normalised |-> normalised,
                       source |-> source, new_doc_id |-> uuid4(uuids)]
       IN  IF rejects_text(normalised)
           THEN /\ call' = [call EXCEPT ![c] =
                               [started EXCEPT !.pc = "raised",
                                               !.new_doc_id = None]]
                /\ answers' = Append(answers,
                                     Answer(call'[c], "422", None, FALSE))
                /\ UNCHANGED uuids
           ELSE /\ call' = [call EXCEPT ![c] = started]
                /\ uuids' = uuids + 1
                /\ UNCHANGED answers
    /\ UNCHANGED <<graphVars, syncVars, queryVars, entityVars, plannerVars, redis, documents, published>>

\* check_and_register: redis.get, and the "duplicate" response when the
\* fingerprint is registered.
CheckFingerprint(c) ==
    /\ call[c].pc = "get"
    /\ LET existing_id == redis_get(redis, dedup_key(call[c].normalised))
           dedup == DeduplicationResult(existing_id, call[c].new_doc_id)
       IN  IF dedup.is_duplicate
           THEN /\ call' = [call EXCEPT ![c].pc = "returned"]
                /\ answers' = Append(answers,
                       Answer(call[c], "duplicate", dedup.document_id, FALSE))
           ELSE /\ call' = [call EXCEPT ![c].pc = "set"]
                /\ UNCHANGED answers
    /\ UNCHANGED <<graphVars, syncVars, queryVars, entityVars, plannerVars, redis, documents, published, uuids>>

\* check_and_register: redis.set of the new fingerprint.
RegisterFingerprint(c) ==
    /\ call[c].pc = "set"
    /\ redis' = redis_set(redis, dedup_key(call[c].normalised),
                          call[c].new_doc_id)
    /\ call' = [call EXCEPT ![c].pc = "flush"]
    /\ UNCHANGED <<graphVars, syncVars, queryVars, entityVars, plannerVars, documents, published, answers, uuids>>

\* pg_session.add, flush and refresh of the Document; a flush that fails
\* raises out of _ingest_text.
PersistDocument(c, flushed) ==
    /\ call[c].pc = "flush"
    /\ IF flushed
       THEN /\ documents' = documents \cup
                   {[id |-> call[c].new_doc_id, source |-> call[c].source,
                     raw_text |-> call[c].normalised, content_hash |-> None]}
            /\ call' = [call EXCEPT ![c].pc = "publish"]
            /\ UNCHANGED answers
       ELSE /\ call' = [call EXCEPT ![c].pc = "raised"]
            /\ answers' = Append(answers,
                   Answer(call[c], "raised", call[c].new_doc_id, FALSE))
            /\ UNCHANGED documents
    /\ UNCHANGED <<graphVars, syncVars, queryVars, entityVars, plannerVars, redis, published, uuids>>

\* The publish of the "document ingested" event and the response.
PublishEvent(c, sent) ==
    /\ call[c].pc = "publish"
    /\ LET out == publish_guarded(published, call[c].new_doc_id, sent)
       IN  /\ published' = out.published
           /\ call' = [call EXCEPT ![c].pc =
                          IF out.raised THEN "raised" ELSE "returned"]
           /\ answers' = Append(answers,
                  Answer(call[c],
                         IF out.raised THEN "raised" ELSE "processing",
                         call[c].new_doc_id, ~sent))
    /\ UNCHANGED <<graphVars, syncVars, queryVars, entityVars, plannerVars, redis, documents, uuids>>

IngestNext ==
    \/ \E c \in Sequential, raw_text \in RawTexts, source \in Sources :
          IngestText(c, raw_text, source)
    \/ \E c \in Sequential : CheckFingerprint(c)
    \/ \E c \in Sequential : RegisterFingerprint(c)
    \/ \E c \in Sequential, flushed \in BOOLEAN : PersistDocument(c, flushed)
    \/ \E c \in Sequential, sent \in BOOLEAN : PublishEvent(c, sent)

SpecIngest == IngestInit /\ [][IngestNext]_vars

\* C9: in a sequence of non-overlapping _ingest_text calls, a call that is
\* answered and is the first ingestion of its normalised text is answered
\* "processing" with a document id no earlier call had; a call that is
\* answered and is a later ingestion of that text, with any source label,
\* is answered "duplicate" with the document id of the first ingestion.
C9_FirstProcessingLaterDuplicate ==
    \A i \in DOMAIN answers :
        answers[i].status \in {"processing", "duplicate"} =>
            LET before == {j \in 1..(i - 1) : answers[j].text = answers[i].text}
                first == CHOOSE j \in before : \A k \in before : j <= k
            IN  IF before = {}
                THEN /\ answers[i].status = "processing"
                     /\ \A j \in 1..(i - 1) :
                           answers[j].document_id # answers[i].document_id
                ELSE /\ answers[i].status = "duplicate"
                     /\ answers[i].document_id = answers[first].document_id

\* A text was ingested, and ingested again under another source label.
C9_Witness ==
    \E i, j \in DOMAIN answers :
        /\ i < j
        /\ answers[i].text = answers[j].text
        /\ answers[i].source # answers[j].source
        /\ answers[i].status = "processing"
        /\ answers[j].status = "duplicate"

\* C10: a call whose publish failed did not raise: it is answered
\* "processing" with the id of the Document row it added and flushed, and
\* that row is in the session.
C10_PublishFailureNotFatal ==
    \A i \in DOMAIN answers :
        answers[i].publish_failed =>
            /\ answers[i].status = "processing"
            /\ \E d \in documents :
                  /\ d.id = answers[i].document_id
                  /\ d.raw_text = answers[i].text
                  /\ d.source = answers[i].source

\* The publish of a fresh document's event failed.
C10_Witness ==
    \E i \in DOMAIN answers :
        /\ answers[i].publish_failed
        /\ \A k \in DOMAIN published : published[k] # answers[i].document_id

\* C11: a call whose text is empty after normalisation ends with the 422
\* error in the step that normalised it, and that step registers no
\* fingerprint, adds no Document row and publishes no event; no call goes
\* on to the deduplicator with an empty text.
C11_EmptyTextRejectedBeforeSideEffects ==
    /\ [](\A c \in IngestCallers : c \in InFlight => call[c].normalised # <<>>)
    /\ [][(answers' # answers /\ answers'[Len(answers')].text = <<>>)
          => /\ \E src \in Sources :
                   answers' = Append(answers,
                       [document_id |-> None, text |-> <<>>, source |-> src,
                        status |-> "422", publish_failed |-> FALSE])
             /\ \E c \in IngestCallers :
                   call'[c].pc = "raised" /\ call[c].pc \notin {"get", "set", "flush", "publish"}
             /\ UNCHANGED <<redis, documents, published, uuids>>]_vars

\* A text that is empty after normalisation was rejected while fingerprints,
\* Document rows and events of earlier calls exist.
C11_Witness ==
    /\ answers # <<>>
    /\ answers[Len(answers)].status = "422"
    /\ DOMAIN redis # {}
    /\ documents # {}
    /\ published # <<>>

---------------------------------------------------------------------------
(***************************************************************************)
(* The causal traversals of graph_store: get_causal_chain and              *)
(* get_causal_path_between.  A variable-length pattern matches the paths   *)
(* that use no relationship twice; a node may be on a path more than once. *)
(***************************************************************************)

\* A mutation of clamp_hops: max_hops is used as it was passed.
clamp_hops_unclamped(max_hops) == max_hops

\* max(1, min(max_hops, 10))
clamp_hops(max_hops) ==
    LET lowered == IF max_hops < 10 THEN max_hops ELSE 10
    IN  IF 1 > lowered THEN 1 ELSE lowered

\* The CAUSES relationships a path at node may follow next.
Steps(E, node, direction) ==
    {r \in E :
        \/ direction # "upstream" /\ r.cause = node
        \/ direction # "downstream" /\ r.effect = node}

\* The node at the other end of relationship r, followed from node.
OtherEnd(r, node, direction) ==
    IF direction = "downstream" THEN r.effect
    ELSE IF direction = "upstream" THEN r.cause
    ELSE IF r.cause = node THEN r.effect ELSE r.cause

RECURSIVE Trails(_, _, _, _, _)
\* The matches of (seed)-[:CAUSES*1..hops]-(related) that extend path: the
\* node ids along every path of 1 to hops relationships, none used twice.
Trails(E, path, direction, used, hops) ==
    LET node == path[Len(path)]
    IN  (IF Len(path) > 1 THEN {path} ELSE {})
        \cup
        (IF Len(path) - 1 < hops
         THEN UNION {Trails(E, Append(path, OtherEnd(r, node, direction)),
                            direction, used \cup {r}, hops) :
                     r \in Steps(E, node, direction) \ used}
         ELSE {})

RECURSIVE ByHop(_, _, _)
\* The orders in which ORDER BY hop ASC may return the rows whose hop is in
\* from..to: rows of equal hop come in any order.
ByHop(rows, from, to) ==
    IF from > to THEN {<<>>}
    ELSE {first \o rest : first \in Orders({r \in rows : r.hop = from}),
                          rest \in ByHop(rows, from + 1, to)}

\* The rows of
\*   MATCH (seed:Event {id: $id}) MATCH p = <path_clause>
\*   WITH related, length(p) AS hop
\*   RETURN DISTINCT related.id, related.description, related.ts_start, hop
\* one row per distinct (related, hop) pair over the matched paths.
causal_chain_rows(G, event_id, direction, hops) ==
    LET E == BagToSet(G.causes)
        paths == UNION {Trails(E, <<seed.id>>, direction, {}, hops) :
                        seed \in MatchEvent(G, _str(event_id))}
    IN  UNION {{[event_id |-> related.id,
                 description |-> related.description,
                 ts_start |-> related.ts_start,
                 hop |-> Len(p) - 1] :
                related \in MatchEvent(G, p[Len(p)])} :
               p \in paths}

\* The results get_causal_chain may return: the rows, ORDER BY hop ASC.
get_causal_chain(G, event_id, direction, max_hops) ==
    LET hops == clamp_hops(max_hops)
    IN  ByHop(causal_chain_rows(G, event_id, direction, hops), 1, hops)

\* MATCH (src:Event {id}), (tgt:Event {id})
\* MATCH p = shortestPath((src)-[:CAUSES*1..max_hops]->(tgt))
\* UNWIND nodes(p) AS n RETURN n.id, n.description, n.ts_start
get_causal_path_between(G, source_event_id, target_event_id, max_hops) ==
    LET hops == clamp_hops(max_hops)
        E == BagToSet(G.causes)
        paths == {p \in UNION {Trails(E, <<src.id>>, "downstream", {}, hops) :
                               src \in MatchEvent(G, _str(source_event_id))} :
                     MatchEvent(G, _str(target_event_id)) # {}
                     /\ p[Len(p)] = _str(target_event_id)}
        shortest == {p \in paths : \A q \in paths : Len(p) <= Len(q)}
        node(id) == CHOOSE n \in BagToSet(G.events) : n.id = id
    IN  IF shortest = {} THEN {<<>>}
        ELSE {[i \in DOMAIN p |->
                  [event_id |-> node(p[i]).id,
                   description |-> node(p[i]).description,
                   ts_start |-> node(p[i]).ts_start]] : p \in shortest}

---------------------------------------------------------------------------
(* SpecTraversal: the causal traversals called with any arguments on graphs
   that the write operations built. *)

\* Bound on the max_hops argument a caller passes (the clamp is at 10).
MaxHopsAsked == 12

\* max_hops arguments: negative, zero, small, and around the clamp at 10.
HopsAsked == {-3, 0, 1, 2, 3} \cup 9..MaxHopsAsked

\* Event ids of the traversal graphs; "zz" is the id of no node.
ChainUuids == <<"c0", "c1", "c2", "c3", "c4", "c5", "c6", "c7", "c8", "c9",
                "c10", "c11", "c12", "c13">>

SeedUuids == {"c0", "c1", "c2", "zz"}

Directions == {"downstream", "upstream", "both", "sideways"}

RECURSIVE WithEvents(_, _)
\* upsert_event_node for each of the first n ids.
WithEvents(G, n) ==
    IF n = 0 THEN G
    ELSE upsert_event_node(WithEvents(G, n - 1), ChainUuids[n],
                           "d-" \o ChainUuids[n], None, "doc1")

RECURSIVE WithEdges(_, _)
\* upsert_causal_edge for each <<cause, effect>> pair of edges.
WithEdges(G, edges) ==
    IF edges = <<>> THEN G
    ELSE LET e == edges[Len(edges)]
         IN  upsert_causal_edge(WithEdges(G, SubSeq(edges, 1, Len(edges) - 1)),
                                ChainUuids[e[1]], ChainUuids[e[2]],
                                "r" \o ToString(Len(edges)), 1)

\* c0 -> c1 -> c2
LineGraph == WithEdges(WithEvents(EmptyGraph, 3), <<<<1, 2>>, <<2, 3>>>>)

\* c0 -> c1 -> c2 and c0 -> c2: c2 is at the end of paths of two lengths.
DiamondGraph ==
    WithEdges(WithEvents(EmptyGraph, 3), <<<<1, 2>>, <<2, 3>>, <<1, 3>>>>)

\* c0 -> c1 -> c2 -> c0
CycleGraph ==
    WithEdges(WithEvents(EmptyGraph, 3), <<<<1, 2>>, <<2, 3>>, <<3, 1>>>>)

\* c0 -> c1 -> ... : one more node than MaxHopsAsked hops can reach.
LongGraph ==
    WithEdges(WithEvents(EmptyGraph, MaxHopsAsked + 1),
              [i \in 1..MaxHopsAsked |-> <<i, i + 1>>])

CausalGraphs == {LineGraph, DiamondGraph, CycleGraph, LongGraph}

TraversalInit ==
    /\ graph \in CausalGraphs
    /\ seen = {}
    /\ deletes = NoDelete
    /\ planned = <<>>
    /\ SyncUnused
    /\ IngestUnused
    /\ QueryUnused
    /\ EntityUnused

GetCausalChain(event_id, direction, max_hops) ==
    /\ \E records \in get_causal_chain(graph, event_id, direction, max_hops) :
          traversal' = [event_id |-> event_id, op |-> "get_causal_chain",
                        max_hops |-> max_hops, direction |-> direction,
                        target_event_id |-> None, records |-> records]
    /\ UNCHANGED <<graphVars, syncVars, ingestVars, query, resolved, spans, entityVars, plannerVars>>

\* shortestPath needs two different end nodes.
GetCausalPathBetween(source_event_id, target_event_id, max_hops) ==
    /\ source_event_id # target_event_id
    /\ \E records \in get_causal_path_between(graph, source_event_id,
                                               target_event_id, max_hops) :
          traversal' = [event_id |-> source_event_id,
                        op |-> "get_causal_path_between",
                        max_hops |-> max_hops,
                        direction |-> "downstream",
                        target_event_id |-> target_event_id, records |-> records]
    /\ UNCHANGED <<graphVars, syncVars, ingestVars, query, resolved, spans, entityVars, plannerVars>>

TraversalNext ==
    \/ \E event_id \in SeedUuids, direction \in Directions, max_hops \in HopsAsked :
          GetCausalChain(event_id, direction, max_hops)
    \/ \E source_event_id \in SeedUuids,
          target_event_id \in SeedUuids \cup {ChainUuids[11], ChainUuids[12]},
          max_hops \in HopsAsked :
          GetCausalPathBetween(source_event_id, target_event_id, max_hops)

SpecTraversal == TraversalInit /\ [][TraversalNext]_vars

\* The bound the clamp is to give for max_hops.
Clamped(max_hops) ==
    IF max_hops <= 0 THEN 1 ELSE IF max_hops > 10 THEN 10 ELSE max_hops

\* C17: get_causal_chain and get_causal_path_between called with any integer
\* max_hops return what they return for max_hops clamped to 1..10: for
\* max_hops <= 0 the result of 1, for max_hops > 10 the result of 10; no call
\* is rejected.
C17_HopsClampedTo1And10 ==
    traversal # <<>> =>
        IF traversal.op = "get_causal_chain"
        THEN /\ traversal.records \in
                    ByHop(causal_chain_rows(graph, traversal.event_id,
                                            traversal.direction,
                                            Clamped(traversal.max_hops)),
                          1, 10)
             /\ \A i \in DOMAIN traversal.records :
                    traversal.records[i].hop \in 1..10
        ELSE /\ Len(traversal.records) <= 11
             /\ traversal.records \in
                    {IF Len(p) - 1 <= Clamped(traversal.max_hops) THEN p ELSE <<>> :
                     p \in get_causal_path_between(graph, traversal.event_id,
                                                   traversal.target_event_id, 10)}

\* Calls with max_hops 0 and MaxHopsAsked on the long chain were answered
\* with 1 and 10 records.
C17_Witness ==
    /\ graph = LongGraph
    /\ traversal # <<>>
    /\ traversal.op = "get_causal_chain"
    /\ traversal.event_id = "c0"
    /\ traversal.direction = "downstream"
    /\ traversal.max_hops > 10
    /\ Len(traversal.records) = 10

\* The least number of CAUSES relationships from the seed to the node with
\* id related along direction, over paths of at most hops relationships;
\* 0 when there is no such path.
HopDistance(G, event_id, related, direction, hops) ==
    LET paths == {p \in UNION {Trails(BagToSet(G.causes), <<seed.id>>,
                                      direction, {}, hops) :
                               seed \in MatchEvent(G, _str(event_id))} :
                     p[Len(p)] = related}
    IN  IF paths = {} THEN 0
        ELSE Len(CHOOSE p \in paths : \A q \in paths : Len(p) <= Len(q)) - 1

\* C18: get_causal_chain returns one record for each node that a path of at
\* most the hop bound reaches from the seed, no node twice, each record with
\* the node's hop distance from the seed, in ascending hop order.
C18_EachReachableNodeOnceWithDistance ==
    (traversal # <<>> /\ traversal.op = "get_causal_chain") =>
        LET records == traversal.records
            hops == Clamped(traversal.max_hops)
            others == {i \in DOMAIN records :
                          records[i].event_id # _str(traversal.event_id)}
        IN  /\ \A i, j \in others :
                  records[i].event_id = records[j].event_id => i = j
            /\ \A i \in others :
                  records[i].hop = HopDistance(graph, traversal.event_id,
                                               records[i].event_id,
                                               traversal.direction, hops)
            /\ \A n \in BagToSet(graph.events) :
                  (/\ n.id # _str(traversal.event_id)
                   /\ HopDistance(graph, traversal.event_id, n.id,
                                  traversal.direction, hops) > 0)
                  => \E i \in others : records[i].event_id = n.id
            /\ \A i, j \in DOMAIN records :
                  i < j => records[i].hop <= records[j].hop

---------------------------------------------------------------------------
(***************************************************************************)
(* entity_resolver: resolve_entity and resolve_entity_filter.  Names and   *)
(* mentions are texts (tuples of characters), as in normalize.             *)
(***************************************************************************)

\* str.lower() of one character.
lower_char(ch) ==
    CASE ch = "A" -> "a" [] ch = "B" -> "b" [] ch = "C" -> "c"
      [] ch = "E" -> "e" [] ch = "M" -> "m" [] ch = "O" -> "o"
      [] OTHER -> ch

\* str.lower()
lower(text) == [i \in DOMAIN text |-> lower_char(text[i])]

\* text.lower().strip()
_norm(text) == strip(lower(text))

\* SequenceMatcher.find_longest_match: the matching blocks <<i, j, k>>
\* (a[i..i+k-1] = b[j..j+k-1]) of greatest k; among them the one that starts
\* earliest in a, then earliest in b.
find_longest_match(a, b) ==
    LET blocks == {x \in (1..Len(a)) \X (1..Len(b)) \X (1..Min(Len(a), Len(b))) :
                      /\ x[1] + x[3] - 1 <= Len(a)
                      /\ x[2] + x[3] - 1 <= Len(b)
                      /\ SubSeq(a, x[1], x[1] + x[3] - 1)
                            = SubSeq(b, x[2], x[2] + x[3] - 1)}
    IN  IF blocks = {} THEN <<1, 1, 0>>
        ELSE CHOOSE x \in blocks : \A y \in blocks :
                \/ x[3] > y[3]
                \/ x[3] = y[3] /\ x[1] < y[1]
                \/ x[3] = y[3] /\ x[1] = y[1] /\ x[2] <= y[2]

RECURSIVE matching_characters(_, _)
\* The sum of the sizes of SequenceMatcher.get_matching_blocks(): the longest
\* match, then the same to its left and to its right.
matching_characters(a, b) ==
    LET m == find_longest_match(a, b)
    IN  IF m[3] = 0 THEN 0
        ELSE m[3]
             + matching_characters(SubSeq(a, 1, m[1] - 1), SubSeq(b, 1, m[2] - 1))
             + matching_characters(SubSeq(a, m[1] + m[3], Len(a)),
                                   SubSeq(b, m[2] + m[3], Len(b)))

\* SequenceMatcher(None, _norm(a), _norm(b)).ratio() = 2.0 * M / T, as the
\* fraction <<2 * M, T>>; 1.0 for two empty texts.
_fuzzy_ratio(a, b) ==
    LET T == Len(_norm(a)) + Len(_norm(b))
    IN  IF T = 0 THEN <<1, 1>>
        ELSE <<2 * matching_characters(_norm(a), _norm(b)), T>>

\* p > q, p >= q and max(p, q) for fractions with positive denominators.
RatioGreater(p, q) == p[1] * q[2] > q[1] * p[2]

RatioAtLeast(p, q) == p[1] * q[2] >= q[1] * p[2]

RatioMax(p, q) == IF RatioGreater(q, p) THEN q ELSE p

\* Minimum SequenceMatcher ratio to accept a fuzzy match: 0.75.
_FUZZY_THRESHOLD == <<3, 4>>

\* Maximum ILIKE candidates to load.
_CANDIDATE_LIMIT == 20

\* Confidences are kept in units of 0.00001.
Unit == 100000

\* round(x, 4) of a confidence in units of 0.00001.
round4(x) == ((x + 5) \div 10) * 10

\* round(ratio, 4) of a fraction.
round4_ratio(p) == round4((p[1] * Unit) \div p[2])

\* lower(column) LIKE '%' || pattern || '%' for a pattern without wildcards.
like_contains(column, pattern) ==
    \E i \in 1..(Len(column) + 1) :
        /\ i + Len(pattern) - 1 <= Len(column)
        /\ SubSeq(lower(column), i, i + Len(pattern) - 1) = pattern

\* The results _load_candidates may return: the entities whose name or
\* canonical_name contains the mention, in the order of the SELECT, at most
\* _CANDIDATE_LIMIT of them.  (entity_type is None in every call of the
\* repository.)
_load_candidates(entities, mention) ==
    LET rows == {e \in entities :
                    \/ like_contains(e.canonical_name, lower(mention))
                    \/ like_contains(e.name, lower(mention))}
    IN  {SubSeq(o, 1, Min(Len(o), _CANDIDATE_LIMIT)) : o \in Orders(rows)}

\* The aliases column: NULL, a JSON array of names, or text that json.loads
\* rejects.
Aliases(json, names) == [json |-> json, names |-> names]

NoAliases == Aliases("NULL", <<>>)

_check_aliases(entity, mention) ==
    IF entity.aliases.json = "NULL" THEN FALSE
    ELSE IF entity.aliases.json = "invalid" THEN FALSE
    ELSE \E i \in DOMAIN entity.aliases.names :
            _norm(entity.aliases.names[i]) = _norm(mention)

ResolveResult(entity, confidence, method) ==
    [entity_id |-> entity.id, canonical_name |-> entity.canonical_name,
     confidence |-> confidence, method |-> method]

\* resolve_entity returning None.
NoResult ==
    [entity_id |-> None, canonical_name |-> <<>>, confidence |-> 0,
     method |-> None]

\* max(_fuzzy_ratio(mention, canonical_name), _fuzzy_ratio(mention, name))
entity_ratio(entity, mention) ==
    RatioMax(_fuzzy_ratio(mention, entity.canonical_name),
             _fuzzy_ratio(mention, entity.name))

RECURSIVE best_fuzzy(_, _, _, _)
\* The Tier 3 loop: <<position of best_entity, best_ratio>> after the
\* candidates from position i on, starting from best (position 0: None).
best_fuzzy(candidates, mention, i, best) ==
    IF i > Len(candidates) THEN best
    ELSE LET ratio == entity_ratio(candidates[i], mention)
         IN  best_fuzzy(candidates, mention, i + 1,
                        IF RatioGreater(ratio, best[2])
                        THEN <<i, ratio>> ELSE best)

\* A mutation of tiers: the first candidate that matches in any tier wins.
tiers_first_candidate(candidates, stripped) ==
    LET hit(e) == \/ _norm(e.canonical_name) = _norm(stripped)
                  \/ _norm(e.name) = _norm(stripped)
                  \/ _check_aliases(e, stripped)
                  \/ RatioAtLeast(entity_ratio(e, stripped), _FUZZY_THRESHOLD)
        hits == {i \in DOMAIN candidates : hit(candidates[i])}
    IN  IF hits = {} THEN NoResult
        ELSE LET e == candidates[CHOOSE i \in hits : \A j \in hits : i <= j]
             IN  IF \/ _norm(e.canonical_name) = _norm(stripped)
                    \/ _norm(e.name) = _norm(stripped)
                 THEN ResolveResult(e, Unit, "exact")
                 ELSE IF _check_aliases(e, stripped)
                 THEN ResolveResult(e, 95000, "alias")
                 ELSE ResolveResult(e, round4_ratio(entity_ratio(e, stripped)),
                                    "fuzzy")

\* The three tiers of resolve_entity over the loaded candidates.
tiers(candidates, stripped) ==
    LET norm_mention == _norm(stripped)
        exact == {i \in DOMAIN candidates :
                     \/ _norm(candidates[i].canonical_name) = norm_mention
                     \/ _norm(candidates[i].name) = norm_mention}
        alias == {i \in DOMAIN candidates :
                     _check_aliases(candidates[i], stripped)}
        first(I) == candidates[CHOOSE i \in I : \A j \in I : i <= j]
        best == best_fuzzy(candidates, stripped, 1, <<0, <<0, 1>>>>)
    IN  IF exact # {} THEN ResolveResult(first(exact), Unit, "exact")
        ELSE IF alias # {} THEN ResolveResult(first(alias), 95000, "alias")
        ELSE IF best[1] # 0 /\ RatioAtLeast(best[2], _FUZZY_THRESHOLD)
        THEN ResolveResult(candidates[best[1]], round4_ratio(best[2]), "fuzzy")
        ELSE NoResult

\* resolve_entity after the candidates were loaded.
resolve_entity(candidates, mention) ==
    IF candidates = <<>> THEN NoResult ELSE tiers(candidates, strip(mention))

\* The results resolve_entity_filter may return for the entities table.
resolve_entity_filter(entities, entity_filter) ==
    IF entity_filter = <<>> \/ strip(entity_filter) = <<>> THEN {None}
    ELSE {resolve_entity(candidates, entity_filter).entity_id :
          candidates \in _load_candidates(entities, strip(entity_filter))}

---------------------------------------------------------------------------
(* SpecResolve: resolve_entity called with any mention on any entities
   table. *)

Text_acme == <<"a", "c", "m", "e">>

\* The rows the entities table is drawn from.
ResolverEntities ==
    {[id |-> "n1",
      name |-> <<"A", "c", "m", "e">>,
      canonical_name |-> Text_acme,
      aliases |-> NoAliases],
     [id |-> "n2",
      name |-> <<"A", "c", "m", "e", " ", "C", "o">>,
      canonical_name |-> <<"a", "c", "m", "e", " ", "c", "o">>,
      aliases |-> Aliases("array", <<<<" ", "A", "C", "M", "E">>>>)],
     [id |-> "n3",
      name |-> <<"A", "c", "m", "e", "e">>,
      canonical_name |-> <<"a", "c", "m", "e", "e">>,
      aliases |-> Aliases("invalid", <<>>)],
     [id |-> "n4",
      name |-> <<"M", "a", "c", "m", "e", "b", "o", "b">>,
      canonical_name |-> <<"m", "a", "c", "m", "e", "b", "o", "b">>,
      aliases |-> Aliases("array", <<>>)],
     [id |-> "n5",
      name |-> <<"B", "o", "b">>,
      canonical_name |-> <<"b", "o", "b">>,
      aliases |-> Aliases("array", <<Text_acme>>)]}

Mentions ==
    {<<>>, <<" ", "\t">>, Text_acme, <<" ", "A", "C", "M", "E", " ">>,
     <<"a", "c", "m">>, <<"b", "o", "b">>, <<"c", "m", "e", "e">>}

\* Bound on the number of rows of the entities table.
MaxEntities == 3

ResolveInit ==
    /\ graph = EmptyGraph
    /\ seen = {}
    /\ deletes = NoDelete
    /\ planned = <<>>
    /\ SyncUnused
    /\ IngestUnused
    /\ traversal = <<>>
    /\ query = <<>>
    /\ spans = <<>>
    /\ EntityUnused
    /\ \E entities \in SUBSET ResolverEntities :
          /\ Cardinality(entities) <= MaxEntities
          /\ resolved = [entities |-> entities, result |-> NoResult,
                         mention |-> <<>>, candidates |-> <<>>]

\* resolve_entity(pg_session, mention)
ResolveEntity(mention) ==
    /\ IF mention = <<>> \/ strip(mention) = <<>>
       THEN resolved' = [resolved EXCEPT !.mention = mention,
                                         !.candidates = <<>>,
                                         !.result = NoResult]
       ELSE \E candidates \in _load_candidates(resolved.entities, strip(mention)) :
               resolved' = [resolved EXCEPT
                               !.mention = mention,
                               !.candidates = candidates,
                               !.result = resolve_entity(candidates, mention)]
    /\ UNCHANGED <<graphVars, syncVars, ingestVars, traversal, query, spans, entityVars, plannerVars>>

ResolveNext == \E mention \in Mentions : ResolveEntity(mention)

SpecResolve == ResolveInit /\ [][ResolveNext]_vars

\* The elements of a sequence.
Range(seq) == {seq[i] : i \in DOMAIN seq}

\* The candidates that match the mention in each tier, as sets.
ExactMatches ==
    {e \in Range(resolved.candidates) :
        \/ lower(strip(e.name)) = lower(strip(resolved.mention))
        \/ lower(strip(e.canonical_name)) = lower(strip(resolved.mention))}

AliasMatches ==
    {e \in Range(resolved.candidates) :
        /\ e.aliases.json = "array"
        /\ \E i \in DOMAIN e.aliases.names :
              lower(strip(e.aliases.names[i])) = lower(strip(resolved.mention))}

\* C16: resolve_entity applies the tiers over the whole candidate set, in
\* whatever order the candidates come: an exact match of any candidate gives
\* method "exact" with confidence 1.0; otherwise an alias match of any
\* candidate gives "alias" with 0.95; otherwise the candidate of greatest
\* fuzzy ratio is returned if that ratio is at least 0.75; otherwise there is
\* no match.
C16_TiersInStrictPriority ==
    LET result == resolved.result
        C == Range(resolved.candidates)
        entity == CHOOSE e \in C : e.id = result.entity_id
    IN  IF ExactMatches # {}
        THEN /\ result.method = "exact" /\ result.confidence = Unit
             /\ entity \in ExactMatches
        ELSE IF AliasMatches # {}
        THEN /\ result.method = "alias" /\ result.confidence = 95000
             /\ entity \in AliasMatches
        ELSE IF \E e \in C : RatioAtLeast(entity_ratio(e, resolved.mention), <<75, 100>>)
        THEN /\ result.method = "fuzzy"
             /\ \A e \in C : RatioAtLeast(entity_ratio(entity, resolved.mention),
                                          entity_ratio(e, resolved.mention))
             /\ result.confidence =
                    round4_ratio(entity_ratio(entity, resolved.mention))
        ELSE result = NoResult

\* An exact match was returned although a candidate before it in the order
\* matches by alias or fuzzily.
C16_Witness ==
    /\ resolved.result.method = "exact"
    /\ Len(resolved.candidates) >= 2
    /\ resolved.candidates[1] \notin ExactMatches
    /\ \/ resolved.candidates[1] \in AliasMatches
       \/ RatioAtLeast(entity_ratio(resolved.candidates[1], resolved.mention),
                       <<75, 100>>)

---------------------------------------------------------------------------
(***************************************************************************)
(* The query path: event_store reads, the four planners, the synthesizer   *)
(* and handle_query.  Confidences are integers in units of 0.00001.        *)
(***************************************************************************)

\* Timestamps in their order.
Timestamps == <<"t0", "t1", "t2", "t3">>

TsRank(ts) == CHOOSE i \in DOMAIN Timestamps : Timestamps[i] = ts

TimeRange(start, end) == [start |-> start, end |-> end]

\* time_range is None.
NoTimeRange == TimeRange(None, None)

\* ORDER BY ts_start ASC NULLS LAST, created_at ASC: a sorts strictly
\* before b.
EventBefore(a, b) ==
    IF a.ts_start = None THEN b.ts_start = None /\ a.created_at < b.created_at
    ELSE IF b.ts_start = None THEN TRUE
    ELSE \/ TsRank(a.ts_start) < TsRank(b.ts_start)
         \/ a.ts_start = b.ts_start /\ a.created_at < b.created_at

\* The results event_store.list_events may return (the rows, without the
\* total): the filters combined with AND, ordered, offset 0, limit.
list_events(S, entity_id, from_date, to_date, limit) ==
    LET rows == {e \in S.events :
                    /\ entity_id # None => Link(e.id, entity_id) \in S.event_entities
                    /\ from_date # None =>
                          (e.ts_start # None /\ TsRank(e.ts_start) >= TsRank(from_date))
                    /\ to_date # None =>
                          (e.ts_start # None /\ TsRank(e.ts_start) <= TsRank(to_date))}
    IN  {Page(o, 0, limit) :
         o \in {o \in Orders(rows) :
                   \A i, j \in DOMAIN o : i < j => ~EventBefore(o[j], o[i])}}

\* Cosine distances of the events' embeddings to the question's embedding,
\* in units of 0.00001; -1 for an event whose embedding is NULL.
NoEmbedding == -1

\* The results event_store.similarity_search may return: <<event, distance>>
\* pairs with an embedding and distance <= max_distance, nearest first.
similarity_search(S, distance, limit, max_distance) ==
    LET rows == {e \in S.events :
                    distance[e.id] # NoEmbedding /\ distance[e.id] <= max_distance}
    IN  {[i \in DOMAIN Page(o, 0, limit) |-> <<o[i], distance[o[i].id]>>] :
         o \in {o \in Orders(rows) :
                   \A i, j \in DOMAIN o : i < j => distance[o[i].id] <= distance[o[j].id]}}

\* PlanResult(events, causal_chain, document_ids, confidence)
PlanResult(events, causal_chain, document_ids, confidence) ==
    [events |-> events, confidence |-> confidence,
     causal_chain |-> causal_chain, document_ids |-> document_ids]

\* PlanResult(confidence=0.0)
EmptyPlan == PlanResult(<<>>, <<>>, {}, 0)

\* {ev.document_id for ev in events}
document_ids_of(events) == {events[i].document_id : i \in DOMAIN events}

\* uuid.UUID(text) for the string form of a UUID: the inverse of _str.
UUID(text) == CHOOSE u \in Range(UuidOrder) : _str(u) = text

\* uuid.UUID(text) raises ValueError.
not_uuid(text) == \A u \in Range(UuidOrder) : _str(u) # text

\* A mutation of append_unseen: every record is appended.
append_unseen_all(acc, chain) == acc \o chain

RECURSIVE append_unseen(_, _)
\* for record in chain: append it unless its event_id was seen.
append_unseen(acc, chain) ==
    IF chain = <<>> THEN acc
    ELSE append_unseen(
            IF \E i \in DOMAIN acc : acc[i].event_id = Head(chain).event_id
            THEN acc ELSE Append(acc, Head(chain)),
            Tail(chain))

RECURSIVE sort_by_hop(_, _)
\* list.sort(key=hop), stable: the records of hop h, then those of greater hop.
sort_by_hop(records, h) ==
    IF h > 10 THEN <<>>
    ELSE SelectSeq(records, LAMBDA r : r.hop = h) \o sort_by_hop(records, h + 1)

RECURSIVE merged_chains(_, _, _, _)
\* Step 2 of causal_planner.run: the chain records merged over the seeds from
\* position i on, for every result the traversals may return.
merged_chains(G, seed_events, max_hops, acc) ==
    IF seed_events = <<>> THEN {acc}
    ELSE UNION {merged_chains(G, Tail(seed_events), max_hops, append_unseen(acc, chain)) :
                chain \in get_causal_chain(G, Head(seed_events).id, "both", max_hops)}

RECURSIVE unique_events(_, _)
\* Deduplicate preserving order.
unique_events(fetched, acc) ==
    IF fetched = <<>> THEN acc
    ELSE unique_events(Tail(fetched),
                       IF \E i \in DOMAIN acc : acc[i].id = Head(fetched).id
                       THEN acc ELSE Append(acc, Head(fetched)))

\* Number of seed events, and the greatest cosine distance of a seed (0.8).
_SEED_LIMIT == 3

_SEED_MAX_DISTANCE == 80000

\* A mutation of causal_confidence: no cap at 0.90.
causal_confidence_uncapped(n) == 70000 + 10000 * n

\* min(0.90, 0.70 + 0.10 * len(all_chain_records))
causal_confidence(n) == Min(90000, 70000 + 10000 * n)

\* The seed events of causal_planner.run, for every order the SELECT may
\* return them in.
causal_seeds(S, distance, entity_id) ==
    IF entity_id # None
    THEN LET entity_event_ids == {l.event_id : l \in {l \in S.event_entities :
                                                        l.entity_id = entity_id}}
             rows == {e \in S.events :
                         e.id \in entity_event_ids /\ distance[e.id] # NoEmbedding}
         IN  IF entity_event_ids = {} THEN {<<>>}
             ELSE {Page(o, 0, _SEED_LIMIT) :
                   o \in {o \in Orders(rows) :
                             \A i, j \in DOMAIN o :
                                 i < j => distance[o[i].id] <= distance[o[j].id]}}
    ELSE {[i \in DOMAIN pairs |-> pairs[i][1]] :
          pairs \in similarity_search(S, distance, _SEED_LIMIT, _SEED_MAX_DISTANCE)}

\* Steps 2 to 4 of causal_planner.run: the results it may return once the
\* seed events are drawn.
causal_plans(S, G, seed_events, max_hops) ==
    IF seed_events = <<>> THEN {EmptyPlan}
    ELSE UNION {
        LET all_chain_records == sort_by_hop(merged, 0)
            full_event_ids == {UUID(all_chain_records[i].event_id) :
                               i \in {i \in DOMAIN all_chain_records :
                                         ~not_uuid(all_chain_records[i].event_id)}}
            extra_ids == full_event_ids \ {seed_events[i].id : i \in DOMAIN seed_events}
        IN  {LET events == unique_events(seed_events \o extra, <<>>)
             IN  PlanResult(events, all_chain_records, document_ids_of(events),
                            causal_confidence(Len(all_chain_records))) :
             extra \in Orders({e \in S.events : e.id \in extra_ids})} :
        merged \in merged_chains(G, seed_events, max_hops, <<>>)}

\* The results causal_planner.run may return.
causal_planner(S, G, distance, entity_id, max_hops) ==
    UNION {causal_plans(S, G, seed_events, max_hops) :
           seed_events \in causal_seeds(S, distance, entity_id)}

\* confidence = 0.85 if time_range else 0.60
temporal_confidence(time_range, events) ==
    IF time_range # NoTimeRange THEN 85000 ELSE 60000

\* The results temporal_planner.run may return (limit 50).
temporal_planner(S, time_range, entity_id) ==
    {PlanResult(events, <<>>, document_ids_of(events),
                temporal_confidence(time_range, events)) :
     events \in list_events(S, entity_id, time_range.start, time_range.end, 50)}

RECURSIVE Sum(_)
Sum(seq) == IF seq = <<>> THEN 0 ELSE Head(seq) + Sum(Tail(seq))

\* A mutation of similarity_confidence: the mean of an empty list is taken
\* as the best score.
similarity_confidence_one_when_empty(distances) ==
    IF distances # <<>>
    THEN round4(Sum([i \in DOMAIN distances |-> Unit - distances[i]]) \div Len(distances))
    ELSE Unit

\* round(sum(1.0 - d for d in distances) / len(distances), 4), or 0.0
similarity_confidence(distances) ==
    IF distances # <<>>
    THEN round4(Sum([i \in DOMAIN distances |-> Unit - distances[i]]) \div Len(distances))
    ELSE 0

\* similarity_planner: the default of limit, and the distance ceiling (0.9).
_DEFAULT_LIMIT == 10

_MAX_DISTANCE == 90000

\* A mutation of similarity_fetch_limit: no headroom for the post-filters.
similarity_fetch_limit_no_headroom(entity_id, time_range, limit) == limit

\* fetch_limit = limit * 3 if (entity_id or time_range) else limit
similarity_fetch_limit(entity_id, time_range, limit) ==
    IF entity_id # None \/ time_range # NoTimeRange THEN limit * 3 ELSE limit

\* The results similarity_planner.run may return.
similarity_planner(S, distance, entity_id, time_range, limit) ==
    LET fetch_limit == similarity_fetch_limit(entity_id, time_range, limit)
        linked(ev) == entity_id # None => Link(ev.id, entity_id) \in S.event_entities
        _in_range(ev) ==
            time_range # NoTimeRange =>
                /\ ev.ts_start # None
                /\ TsRank(time_range.start) <= TsRank(ev.ts_start)
                /\ TsRank(ev.ts_start) <= TsRank(time_range.end)
    IN  {LET kept == Page(SelectSeq(pairs, LAMBDA q : linked(q[1]) /\ _in_range(q[1])),
                          0, limit)
             events == [i \in DOMAIN kept |-> kept[i][1]]
             distances == [i \in DOMAIN kept |-> kept[i][2]]
         IN  PlanResult(events, <<>>, document_ids_of(events),
                        similarity_confidence(distances)) :
         pairs \in similarity_search(S, distance, fetch_limit, _MAX_DISTANCE)}

\* The results graph_store.get_entity_graph may return: the Event nodes with
\* an INVOLVES relationship to the entity (ts_start ascending, NULLs last,
\* at most max_events) and the CAUSES relationships among them.
get_entity_graph(G, entity_id, max_events) ==
    LET nodes == {e \in BagToSet(G.events) :
                     \E r \in BagToSet(G.involves) :
                         r.event = e.id /\ r.entity = _str(entity_id)}
        rank(ts) == CHOOSE i \in DOMAIN Timestamps : _iso(Timestamps[i]) = ts
        before(a, b) ==
            /\ a.ts_start # None
            /\ (b.ts_start = None \/ rank(a.ts_start) < rank(b.ts_start))
    IN  UNION {
            LET events == Page(o, 0, max_events)
                ids == {events[i].id : i \in DOMAIN events}
                rels == {r \in BagToSet(G.causes) : r.cause \in ids /\ r.effect \in ids}
            IN  {[events |-> events, edges |-> edges] : edges \in Orders(rels)} :
            o \in {o \in Orders(nodes) :
                      \A i, j \in DOMAIN o : i < j => ~before(o[j], o[i])}}

RECURSIVE edges_to_chain(_, _, _)
\* The loop of entity_planner.run over edge_records: one chain record for
\* each cause_id and effect_id not seen before.
edges_to_chain(edge_records, graph_events, acc) ==
    IF edge_records = <<>> THEN acc
    ELSE LET edge == Head(edge_records)
             record(eid) ==
                 LET found == {i \in DOMAIN graph_events : graph_events[i].id = eid}
                     ge == graph_events[CHOOSE i \in found : \A j \in found : i <= j]
                 IN  [event_id |-> eid,
                      description |-> IF found = {} THEN "" ELSE ge.description,
                      ts_start |-> IF found = {} THEN None ELSE ge.ts_start,
                      hop |-> 0]
             with_cause == append_unseen(acc, <<record(edge.cause)>>)
         IN  edges_to_chain(Tail(edge_records), graph_events,
                            append_unseen(with_cause, <<record(edge.effect)>>))

\* confidence=0.88 if events else 0.0
entity_confidence(events) == IF events # <<>> THEN 88000 ELSE 0

\* A mutation of entity_plan: the confidence follows the events of the graph.
entity_plan_by_graph(events, graph_data) ==
    PlanResult(events,
               edges_to_chain(graph_data.edges, graph_data.events, <<>>),
               document_ids_of(events), entity_confidence(graph_data.events))

\* entity_planner.run once both stores have answered.
entity_plan(events, graph_data) ==
    PlanResult(events,
               edges_to_chain(graph_data.edges, graph_data.events, <<>>),
               document_ids_of(events), entity_confidence(events))

\* The results entity_planner.run may return.
entity_planner(S, G, entity_id, time_range) ==
    IF entity_id = None THEN {EmptyPlan}
    ELSE {entity_plan(events, graph_data) :
          events \in list_events(S, entity_id, time_range.start, time_range.end, 50),
          graph_data \in get_entity_graph(G, entity_id, 50)}

---------------------------------------------------------------------------
(* intent.py: a question is known by the heuristic rules whose pattern it
   matches and by what the LLM answers when asked to classify it. *)

\* _RULES, in order: the intent and the confidence of each rule.
_RULES ==
    <<<<"CAUSAL_WHY", 95000>>, <<"CAUSAL_WHY", 90000>>,
      <<"TEMPORAL_RANGE", 95000>>, <<"TEMPORAL_RANGE", 90000>>,
      <<"TEMPORAL_RANGE", 85000>>, <<"SIMILARITY", 90000>>,
      <<"ENTITY_TIMELINE", 92000>>>>

_VALID_LABELS == {"CAUSAL_WHY", "TEMPORAL_RANGE", "SIMILARITY", "ENTITY_TIMELINE"}

IntentResult(intent, confidence, method) ==
    [confidence |-> confidence, method |-> method, intent |-> intent]

\* raw.strip().upper() of the LLM outputs of LlmOutputs.
strip_upper(raw) ==
    CASE raw = " entity_timeline\n" -> "ENTITY_TIMELINE"
      [] raw = "causal" -> "CAUSAL"
      [] raw = "similarity" -> "SIMILARITY"
      [] OTHER -> raw

\* What ollama_client.generate returns for the classification prompt;
\* "raise" is any exception.
LlmOutputs ==
    {"CAUSAL_WHY", "TEMPORAL_RANGE", " entity_timeline\n", "similarity",
     "causal", "raise"}

_llm_classify(question) ==
    IF question.llm # "raise" /\ strip_upper(question.llm) \in _VALID_LABELS
    THEN IntentResult(strip_upper(question.llm), 80000, "llm")
    ELSE IntentResult("SIMILARITY", 50000, "llm")

\* A mutation of classify_intent: the LLM is asked first and the rules are
\* used when it gives no valid label.
classify_intent_llm_first(question) ==
    IF question.llm # "raise" /\ strip_upper(question.llm) \in _VALID_LABELS
    THEN _llm_classify(question)
    ELSE IF question.rules # {}
    THEN LET first == CHOOSE i \in question.rules : \A j \in question.rules : i <= j
         IN  IntentResult(_RULES[first][1], _RULES[first][2], "heuristic")
    ELSE _llm_classify(question)

\* _heuristic_classify, then _llm_classify when no rule fires.
classify_intent(question) ==
    IF question.rules # {}
    THEN LET first == CHOOSE i \in question.rules : \A j \in question.rules : i <= j
         IN  IntentResult(_RULES[first][1], _RULES[first][2], "heuristic")
    ELSE _llm_classify(question)

\* A mutation of extract_time_range: what NER finds in the question is
\* preferred to the explicit range.
extract_time_range_ner_first(explicit, ner) == IF ner # NoTimeRange THEN ner ELSE explicit

\* extract_time_range: the explicit range, else what NER finds.
extract_time_range(explicit, ner) == IF explicit # NoTimeRange THEN explicit ELSE ner

---------------------------------------------------------------------------
(* synthesizer.py *)

\* _events_to_brief
_events_to_brief(plan) ==
    [i \in DOMAIN plan.events |->
        [id |-> plan.events[i].id, description |-> plan.events[i].description,
         ts_start |-> plan.events[i].ts_start]]

\* datetime.fromisoformat(raw_ts), None when raw_ts is None or unparsable.
fromisoformat(raw_ts) ==
    IF \E i \in DOMAIN Timestamps : _iso(Timestamps[i]) = raw_ts
    THEN Timestamps[CHOOSE i \in DOMAIN Timestamps : _iso(Timestamps[i]) = raw_ts]
    ELSE None

\* _chain_to_links: records whose event_id is no UUID are skipped.
_chain_to_links(plan) ==
    LET valid == SelectSeq(plan.causal_chain, LAMBDA r : ~not_uuid(r.event_id))
    IN  [i \in DOMAIN valid |->
            [id |-> UUID(valid[i].event_id), description |-> valid[i].description,
             ts_start |-> fromisoformat(valid[i].ts_start)]]

\* The results _fetch_sources may return when its SELECT succeeds.
_fetch_sources(docs, document_ids) ==
    IF document_ids = {} THEN {<<>>}
    ELSE {[i \in DOMAIN o |-> [id |-> o[i].id, source |-> o[i].source]] :
          o \in Orders({d \in docs : d.id \in document_ids})}

\* "{description} ({ts})" of a link or a brief.
answer_line(item) ==
    <<item.description,
      IF item.ts_start # None THEN item.ts_start ELSE "unknown date">>

\* A mutation of _fallback_answer: the event list is preferred to the chain.
_fallback_answer_events_first(question, briefs, links) ==
    IF briefs # <<>>
    THEN [lines |-> [i \in 1..Min(5, Len(briefs)) |-> answer_line(briefs[i])],
          question |-> question,
          heading |-> "Relevant events found:"]
    ELSE IF links # <<>>
    THEN [lines |-> [i \in DOMAIN links |-> answer_line(links[i])],
          question |-> question,
          heading |-> "Causal chain identified:"]
    ELSE [lines |-> <<>>,
          question |-> question, heading |-> "No relevant events found for this query."]

\* _fallback_answer: "Query: ..." then the first template that applies.
_fallback_answer(question, briefs, links) ==
    IF links # <<>>
    THEN [lines |-> [i \in DOMAIN links |-> answer_line(links[i])],
          question |-> question,
          heading |-> "Causal chain identified:"]
    ELSE IF briefs # <<>>
    THEN [lines |-> [i \in 1..Min(5, Len(briefs)) |-> answer_line(briefs[i])],
          question |-> question,
          heading |-> "Relevant events found:"]
    ELSE [lines |-> <<>>,
          question |-> question, heading |-> "No relevant events found for this query."]

\* The text ollama_client.generate returned, stripped.
llm_answer(question) ==
    [lines |-> <<>>, question |-> question, heading |-> "llm"]

QueryResponse(answer, confidence, intent, causal_chain, events, sources) ==
    [events |-> events, confidence |-> confidence, causal_chain |-> causal_chain,
     intent |-> intent, answer |-> answer, sources |-> sources]

\* A mutation of synthesize: the response is built from an empty plan.
synthesize_without_plan(plan, question, intent, sources, generated) ==
    LET answer == IF generated THEN llm_answer(question)
                  ELSE _fallback_answer(question, <<>>, <<>>)
    IN  QueryResponse(answer, 0, intent, <<>>, <<>>, sources)

\* synthesize after _fetch_sources returned sources; generated says whether
\* ollama_client.generate returned.
synthesize(plan, question, intent, sources, generated) ==
    LET briefs == _events_to_brief(plan)
        links == _chain_to_links(plan)
        answer == IF generated THEN llm_answer(question)
                  ELSE _fallback_answer(question, briefs, links)
    IN  QueryResponse(answer, round4(plan.confidence), intent, links, briefs, sources)

---------------------------------------------------------------------------
(* The statements the query path sends to the two databases.  A statement
   is known by its session and its verb; SELECT and MATCH read, any other
   verb writes. *)

Statement(session, verb) == [session |-> session, verb |-> verb]

Database(S, docs, G) == [graph |-> G, store |-> S, documents |-> docs]

\* session.execute / session.run of one statement.
execute(db, statement) ==
    IF statement.verb \in {"SELECT", "MATCH"} THEN db
    ELSE IF statement.session = "pg"
    THEN [db EXCEPT !.store = EmptyStore, !.documents = {}]
    ELSE [db EXCEPT !.graph = EmptyGraph]

RECURSIVE execute_all(_, _)
execute_all(db, statements) ==
    IF statements = <<>> THEN db
    ELSE execute_all(execute(db, Head(statements)), Tail(statements))

\* _load_candidates, when resolve_entity gets to it.
resolve_statements(entity_filter) ==
    IF entity_filter = <<>> \/ strip(entity_filter) = <<>> THEN <<>>
    ELSE <<Statement("pg", "SELECT")>>

\* The statements of each planner's run.
planner_statements(planner, entity_id, plan) ==
    CASE planner = "causal" ->
            (IF entity_id # None THEN <<Statement("pg", "SELECT")>> ELSE <<>>)
            \o <<Statement("pg", "SELECT")>>
            \o (IF plan = EmptyPlan THEN <<>>
                ELSE <<Statement("neo4j", "MATCH"), Statement("pg", "SELECT")>>)
      [] planner = "temporal" ->
            <<Statement("pg", "SELECT"), Statement("pg", "SELECT")>>
      [] planner = "entity" ->
            IF entity_id = None THEN <<>>
            ELSE <<Statement("pg", "SELECT"), Statement("pg", "SELECT"),
                   Statement("neo4j", "MATCH"), Statement("neo4j", "MATCH")>>
      [] OTHER ->
            <<Statement("pg", "SELECT")>>
            \o (IF entity_id # None THEN <<Statement("pg", "SELECT")>> ELSE <<>>)

\* A mutation of synthesize_statements: the cited documents are also marked.
synthesize_statements_marking(document_ids) ==
    IF document_ids = {} THEN <<>>
    ELSE <<Statement("pg", "SELECT"), Statement("pg", "UPDATE")>>

\* _fetch_sources: one SELECT unless there is no document id.
synthesize_statements(document_ids) ==
    IF document_ids = {} THEN <<>> ELSE <<Statement("pg", "SELECT")>>

---------------------------------------------------------------------------
(* SpecQuery: handle_query, one call at a time, stage by stage, on a
   relational store and a graph that do not otherwise change. *)

\* Bound on request.max_causal_hops (the schema allows 1..10).
MaxCausalHops == 2

\* Questions: the sets of rules that fire and the LLM's output when asked
\* ("unused" where it plays no part); two questions match a rule while the
\* LLM would name another intent or fail.
Questions ==
    {[llm |-> "unused", rules |-> R] : R \in {{1}, {2, 6}, {3, 7}, {5}, {6, 7}, {7}}}
    \cup {[llm |-> o, rules |-> {}] : o \in LlmOutputs}
    \cup {[llm |-> "CAUSAL_WHY", rules |-> {7}], [llm |-> "raise", rules |-> {1}]}

\* request.entity_filter: none, one that resolves, one that does not.
EntityFilters == {<<>>, <<"A", "C", "M", "E", " ">>, <<"z">>}

\* request.time_range: none, one with events, one without.
TimeRanges == {NoTimeRange, TimeRange("t1", "t1"), TimeRange("t0", "t0")}

\* What NER may find in a question.
NerRanges == {NoTimeRange, TimeRange("t1", "t2")}

\* The cosine distances of the events to the question.
Distances ==
    {[e \in {"e1", "e2", "e3"} |-> NoEmbedding],
     ("e1" :> 20000 @@ "e2" :> 50005 @@ "e3" :> 85000),
     ("e1" :> 95000 @@ "e2" :> NoEmbedding @@ "e3" :> NoEmbedding),
     ("e1" :> 30000 @@ "e2" :> NoEmbedding @@ "e3" :> 30000)}

\* The names of the entities table as texts.
text_of(name) ==
    CASE name = "Acme" -> <<"A", "c", "m", "e">>
      [] name = "acme" -> Text_acme
      [] name = "Bob" -> <<"B", "o", "b">>
      [] name = "bob" -> <<"b", "o", "b">>

\* The rows of the entities table as resolve_entity reads them.
entities_of(S) ==
    {[id |-> n.id, name |-> text_of(n.name),
      canonical_name |-> text_of(n.canonical_name),
      aliases |-> NoAliases] :
     n \in S.entities}

\* The rows of the documents table.
DocumentRows ==
    {[id |-> "doc1", source |-> "api", raw_text |-> <<"a">>, content_hash |-> None],
     [id |-> "doc2", source |-> "upload", raw_text |-> <<"b">>, content_hash |-> None]}

NoRequest ==
    [entity_filter |-> <<>>, time_range |-> NoTimeRange,
     question |-> [llm |-> "unused", rules |-> {}], max_causal_hops |-> 1]

NoResponse == QueryResponse(llm_answer(NoRequest.question), 0, None, <<>>, <<>>, <<>>)

IdleQuery ==
    [entity_id |-> None,
     pc |-> "idle", distance |-> [e \in {"e1", "e2", "e3"} |-> NoEmbedding],
     time_range |-> NoTimeRange, plan |-> EmptyPlan,
     sources |-> <<>>, generated |-> FALSE, intent_result |-> IntentResult(None, 0, None),
     planners |-> <<>>, request |-> NoRequest, response |-> NoResponse]

QueryInit ==
    /\ store \in Stores
    /\ graph \in {Projection(store), EmptyGraph}
    /\ documents = DocumentRows
    /\ seen = {}
    /\ deletes = NoDelete
    /\ planned = <<>>
    /\ qorder = <<>> /\ runs = 0 /\ proc = <<>> /\ obs = <<>> /\ graph0 = EmptyGraph
    /\ redis = <<>> /\ published = <<>> /\ call = <<>> /\ answers = <<>> /\ uuids = 0
    /\ traversal = <<>>
    /\ resolved = <<>>
    /\ spans = <<>>
    /\ EntityUnused
    /\ query = IdleQuery

\* What the query path does not touch.
queryFrame ==
    <<seen, deletes, qorder, runs, proc, obs, graph0, redis, published, call, answers,
      uuids, traversal, resolved, spans, pg_entities, upserts, planned>>

\* The databases after the statements were executed.
Executed(statements) ==
    LET db == execute_all(Database(store, documents, graph), statements)
    IN  /\ store' = db.store
        /\ documents' = db.documents
        /\ graph' = db.graph

\* handle_query is called.
HandleQuery(request, distance) ==
    /\ query.pc = "idle"
    /\ query' = [IdleQuery EXCEPT !.pc = "classify", !.request = request,
                                  !.distance = distance]
    /\ Executed(<<>>)
    /\ UNCHANGED queryFrame

\* Stage 1: classify_intent.
ClassifyIntent ==
    /\ query.pc = "classify"
    /\ query' = [query EXCEPT !.pc = "extract",
                              !.intent_result = classify_intent(query.request.question)]
    /\ Executed(<<>>)
    /\ UNCHANGED queryFrame

\* Stage 2: extract_time_range.
ExtractTimeRange(ner) ==
    /\ query.pc = "extract"
    /\ query' = [query EXCEPT !.pc = "resolve",
                              !.time_range = extract_time_range(query.request.time_range, ner)]
    /\ Executed(<<>>)
    /\ UNCHANGED queryFrame

\* Stage 3: resolve_entity_filter.
ResolveEntityFilter ==
    /\ query.pc = "resolve"
    /\ \E entity_id \in resolve_entity_filter(entities_of(store), query.request.entity_filter) :
          query' = [query EXCEPT !.pc = "plan", !.entity_id = entity_id]
    /\ Executed(resolve_statements(query.request.entity_filter))
    /\ UNCHANGED queryFrame

\* A mutation of dispatch: the last branch is taken whenever the intent is
\* not ENTITY_TIMELINE (an if in place of an elif).
dispatch_fallthrough(intent) ==
    IF intent = "CAUSAL_WHY" THEN <<"causal", "similarity">>
    ELSE IF intent = "TEMPORAL_RANGE" THEN <<"temporal", "similarity">>
    ELSE IF intent = "ENTITY_TIMELINE" THEN <<"entity">>
    ELSE <<"similarity">>

\* Stage 4: the planners handle_query runs for an intent, in order.
dispatch(intent) ==
    IF intent = "CAUSAL_WHY" THEN <<"causal">>
    ELSE IF intent = "TEMPORAL_RANGE" THEN <<"temporal">>
    ELSE IF intent = "ENTITY_TIMELINE" THEN <<"entity">>
    ELSE <<"similarity">>

\* The results the named planner may return for the call in progress.
run_planner(planner) ==
    CASE planner = "causal" ->
            causal_planner(store, graph, query.distance, query.entity_id,
                           query.request.max_causal_hops)
      [] planner = "temporal" ->
            temporal_planner(store, query.time_range, query.entity_id)
      [] planner = "entity" ->
            entity_planner(store, graph, query.entity_id, query.time_range)
      [] OTHER ->
            similarity_planner(store, query.distance, query.entity_id, query.time_range,
                               _DEFAULT_LIMIT)

RECURSIVE statements_of_planners(_, _, _)
statements_of_planners(planners, entity_id, plan) ==
    IF planners = <<>> THEN <<>>
    ELSE planner_statements(Head(planners), entity_id, plan)
         \o statements_of_planners(Tail(planners), entity_id, plan)

RunPlanner ==
    /\ query.pc = "plan"
    /\ LET planners == dispatch(query.intent_result.intent)
       IN  \E plan \in run_planner(planners[Len(planners)]) :
              /\ query' = [query EXCEPT !.pc = "sources", !.planners = planners,
                                        !.plan = plan]
              /\ Executed(statements_of_planners(planners, query.entity_id, plan))
    /\ UNCHANGED queryFrame

\* Stage 5, synthesize: _fetch_sources.  Its SELECT is awaited outside any
\* try block: when it fails, the exception leaves synthesize and
\* handle_query.
FetchSources(fetched) ==
    /\ query.pc = "sources"
    /\ IF fetched \/ query.plan.document_ids = {}
       THEN \E sources \in _fetch_sources(documents, query.plan.document_ids) :
               query' = [query EXCEPT !.pc = "generate", !.sources = sources]
       ELSE query' = [query EXCEPT !.pc = "raised"]
    /\ Executed(IF fetched THEN synthesize_statements(query.plan.document_ids) ELSE <<>>)
    /\ UNCHANGED queryFrame

\* Stage 5, synthesize: the LLM call in its try block, and the response.
Generate(generated) ==
    /\ query.pc = "generate"
    /\ query' = [query EXCEPT
                    !.pc = "returned",
                    !.generated = generated,
                    !.response = synthesize(query.plan, query.request.question,
                                            query.intent_result.intent,
                                            query.sources, generated)]
    /\ Executed(<<>>)
    /\ UNCHANGED queryFrame

\* The call is over; the next one may start.
EndQuery ==
    /\ query.pc \in {"returned", "raised"}
    /\ query' = IdleQuery
    /\ Executed(<<>>)
    /\ UNCHANGED queryFrame

QueryNext ==
    \/ \E question \in Questions, entity_filter \in EntityFilters,
          time_range \in TimeRanges, max_causal_hops \in 1..MaxCausalHops,
          distance \in Distances :
          HandleQuery([entity_filter |-> entity_filter,
                       time_range |-> time_range,
                       question |-> question, max_causal_hops |-> max_causal_hops], distance)
    \/ ClassifyIntent
    \/ \E ner \in NerRanges : ExtractTimeRange(ner)
    \/ ResolveEntityFilter
    \/ RunPlanner
    \/ \E fetched \in BOOLEAN : FetchSources(fetched)
    \/ \E generated \in BOOLEAN : Generate(generated)
    \/ EndQuery

SpecQuery == QueryInit /\ [][QueryNext]_vars

\* The planner the specification maps to each intent.
PlannerOf(intent) ==
    CASE intent = "CAUSAL_WHY" -> "causal"
      [] intent = "TEMPORAL_RANGE" -> "temporal"
      [] intent = "SIMILARITY" -> "similarity"
      [] intent = "ENTITY_TIMELINE" -> "entity"

\* The call in progress is past the dispatch of stage 4.
Dispatched == query.pc \in {"sources", "generate", "returned", "raised"}

\* C12: handle_query invokes exactly one planner, once, the one mapped to the
\* classified intent; before the dispatch no planner was invoked.
C12_ExactlyOnePlannerForIntent ==
    IF Dispatched
    THEN /\ query.intent_result.intent \in _VALID_LABELS
         /\ query.planners = <<PlannerOf(query.intent_result.intent)>>
    ELSE query.planners = <<>>

\* A question no rule matches, classified by the LLM as ENTITY_TIMELINE, went
\* to the entity planner; the call returned.
C12_Witness ==
    /\ query.pc = "returned"
    /\ query.intent_result.method = "llm"
    /\ query.intent_result.intent = "ENTITY_TIMELINE"
    /\ query.planners = <<"entity">>

\* C13: no step of handle_query changes the relational store (events,
\* entities, links, causal relations, documents) or the graph.
C13_QueryPathReadOnly ==
    [][store' = store /\ documents' = documents /\ graph' = graph]_vars

\* A call returned after every stage sent statements: the entity filter was
\* resolved, the causal planner traversed the graph, the sources were fetched.
C13_Witness ==
    /\ query.pc = "returned"
    /\ query.entity_id # None
    /\ query.planners = <<"causal">>
    /\ query.plan.causal_chain # <<>>
    /\ query.sources # <<>>

\* C14: synthesize never raises, whatever the source-document lookup and the
\* LLM call do, and its response carries the plan's confidence rounded and
\* the intent's label.
C14_SynthesizeNeverRaises ==
    /\ query.pc # "raised"
    /\ query.pc = "returned" =>
          /\ query.response.confidence = round4(query.plan.confidence)
          /\ query.response.intent = query.intent_result.intent

\* C15: when the LLM call fails, the answer is the causal-chain template if
\* the chain is not empty, else the event-list template if there are events,
\* else the "no relevant events" message; everything else in the response is
\* what the success path returns.
C15_FallbackByPriority ==
    (query.pc = "returned" /\ ~query.generated) =>
        LET response == query.response
            success == synthesize(query.plan, query.request.question,
                                  query.intent_result.intent, query.sources, TRUE)
        IN  /\ response.answer.heading =
                  IF response.causal_chain # <<>> THEN "Causal chain identified:"
                  ELSE IF response.events # <<>> THEN "Relevant events found:"
                  ELSE "No relevant events found for this query."
            /\ response.causal_chain # <<>> =>
                  Len(response.answer.lines) = Len(response.causal_chain)
            /\ [response EXCEPT !.answer = success.answer] = success
            /\ success.answer.heading = "llm"

\* The LLM call failed for a plan that has both a chain and events.
C15_Witness ==
    /\ query.pc = "returned"
    /\ ~query.generated
    /\ query.response.causal_chain # <<>>
    /\ query.response.events # <<>>

\* C19 as stated: each of the four planners, run on input that yields no
\* events, returns a result with confidence 0.
C19_NoEventsConfidenceZero ==
    (Dispatched /\ query.plan.events = <<>>) => query.plan.confidence = 0

\* C19, amended: the causal, similarity and entity planners return confidence
\* 0 when no event is found; the temporal planner returns 0.85 when a time
\* range was resolved and 0.60 when none was, also when no event is found;
\* none of the four raises.
C19_NoEventsConfidenceByPlanner ==
    /\ query.pc = "plan" => ENABLED RunPlanner
    /\ (Dispatched /\ query.plan.events = <<>>) =>
          query.plan.confidence =
              IF query.planners # <<"temporal">> THEN 0
              ELSE IF query.time_range # NoTimeRange THEN 85000 ELSE 60000

\* The temporal planner, run with a time range in which there is no event,
\* returned no events and confidence 0.85.
C19_Witness ==
    /\ Dispatched
    /\ query.plan.events = <<>>
    /\ query.planners = <<"temporal">>
    /\ query.time_range # NoTimeRange
    /\ query.plan.confidence = 85000

----------------------------------------------------------------------------
(* app/storage/entity_store.py: upsert_entity and bulk_upsert_entities on   *)
(* the entities table, with the optional mirror to the graph store.  Names  *)
(* are texts (tuples of characters) so that LOWER() is computed.            *)

\* A mutation of _merge_aliases: new_name is appended in every case.
_merge_aliases_appending(existing_json, new_name) ==
    Aliases("array", Append(IF existing_json.json = "NULL" THEN <<>>
                            ELSE existing_json.names, new_name))

\* _merge_aliases: the JSON array with new_name appended unless present; a
\* NULL or empty column reads as the empty list.
_merge_aliases(existing_json, new_name) ==
    LET aliases == IF existing_json.json = "NULL" THEN <<>>
                   ELSE existing_json.names
    IN  Aliases("array", IF new_name \in Range(aliases) THEN aliases
                         ELSE Append(aliases, new_name))

\* A mutation of select_entity: the lookup compares canonical_name as is.
select_entity_case_sensitive(rows, canonical_name, entity_type) ==
    {r \in rows : r.canonical_name = canonical_name /\ r.type = entity_type}

\* select(Entity).where(func.lower(Entity.canonical_name)
\*                          == canonical_name.lower(), Entity.type == entity_type)
select_entity(rows, canonical_name, entity_type) ==
    {r \in rows : /\ lower(r.canonical_name) = lower(canonical_name)
                  /\ r.type = entity_type}

\* A mutation of merge_entity: the merge also stores the surface form as name.
merge_entity_renaming(entity, name) ==
    [entity EXCEPT !.name = name, !.aliases = _merge_aliases(@, name)]

\* The branch "entity is not None": entity.aliases = _merge_aliases(...).
merge_entity(entity, name) ==
    [entity EXCEPT !.aliases = _merge_aliases(@, name)]

\* Entity(canonical_name, name, type, description, aliases=json.dumps([name]))
\* with the id the default uuid4 gives it.
Entity(id, name, canonical_name, entity_type, description) ==
    [id |-> id, description |-> description, name |-> name,
     canonical_name |-> canonical_name, type |-> entity_type,
     aliases |-> Aliases("array", <<name>>)]

\* The session after a call: the table, the graph, the uuids drawn, the
\* Entity returned (by id) and whether the call raised.
EntitySession(rows, G, drawn, entity_id, raised) ==
    [graph |-> G, entity_id |-> entity_id, rows |-> rows, drawn |-> drawn,
     raised |-> raised]

\* upsert_entity(pg_session, name, canonical_name, entity_type, description,
\* neo4j_session).  scalar_one_or_none raises when two rows match.
upsert_entity(ses, name, canonical_name, entity_type, description, neo4j_session) ==
    LET found == select_entity(ses.rows, canonical_name, entity_type)
    IN  IF Cardinality(found) > 1
        THEN EntitySession(ses.rows, ses.graph, ses.drawn, None, TRUE)
        ELSE LET existing == CHOOSE r \in found : TRUE
                 entity == IF found # {} THEN merge_entity(existing, name)
                           ELSE Entity(uuid4(ses.drawn), name, canonical_name,
                                       entity_type, description)
                 rows == (ses.rows \ found) \cup {entity}
                 drawn == IF found # {} THEN ses.drawn ELSE ses.drawn + 1
                 G == IF neo4j_session
                      THEN upsert_entity_node(ses.graph, entity.id, entity.name,
                                              entity.canonical_name, entity.type)
                      ELSE ses.graph
             IN  EntitySession(rows, G, drawn, entity.id, FALSE)

\* The row of the table with the given id.
entity_by_id(rows, id) == CHOOSE r \in rows : r.id = id

RECURSIVE bulk_loop(_, _, _, _, _)
\* The loop of bulk_upsert_entities over entities[i..]: cache maps the keys
\* (canonical_name.lower(), entity_type) seen in this batch to their Entity.
bulk_loop(ses, entities, i, cache, neo4j_session) ==
    IF i > Len(entities) \/ ses.raised THEN ses
    ELSE LET spec == entities[i]
             key == <<lower(spec.canonical_name), spec.entity_type>>
         IN  IF key \in DOMAIN cache
             THEN LET cached == entity_by_id(ses.rows, cache[key])
                      merged == [cached EXCEPT
                                    !.aliases = _merge_aliases(@, spec.name)]
                  IN  bulk_loop([ses EXCEPT !.rows = (@ \ {cached}) \cup {merged}],
                                entities, i + 1, cache, neo4j_session)
             ELSE LET after == upsert_entity(ses, spec.name, spec.canonical_name,
                                             spec.entity_type, spec.description,
                                             neo4j_session)
                  IN  bulk_loop(after, entities, i + 1,
                                IF after.raised THEN cache
                                ELSE cache @@ (key :> after.entity_id),
                                neo4j_session)

\* bulk_upsert_entities(pg_session, entities, neo4j_session)
bulk_upsert_entities(ses, entities, neo4j_session) ==
    bulk_loop(ses, entities, 1, <<>>, neo4j_session)

----------------------------------------------------------------------------
(* SpecEntities: upsert_entity and bulk_upsert_entities called one after    *)
(* another on one session.                                                  *)

\* Bound on the number of calls.
MaxUpserts == 3

Text_Ac == <<"A", "c">>
Text_ac == <<"a", "c">>

\* The entity dicts the NLP pipeline hands over.
EntitySpecList ==
    <<[description |-> None, name |-> <<"A">>, canonical_name |-> Text_Ac,
       entity_type |-> "ORG"],
      [description |-> None, name |-> Text_ac, canonical_name |-> Text_ac,
       entity_type |-> "ORG"],
      [description |-> None, name |-> <<"A">>, canonical_name |-> Text_ac,
       entity_type |-> "PERSON"],
      [description |-> "d1", name |-> Text_Ac, canonical_name |-> <<"B">>,
       entity_type |-> "ORG"]>>

EntitySpecs == Range(EntitySpecList)

\* The batches handed to bulk_upsert_entities: empty, one pair under two
\* spellings in either order, one dict twice, different pairs.
EntityBatches ==
    {[i \in DOMAIN ix |-> EntitySpecList[ix[i]]] :
        ix \in {<<>>, <<1, 2>>, <<2, 1>>, <<1, 1>>, <<1, 3>>, <<3, 4>>,
                <<4, 2, 1>>}}

\* A row that came into the table with a NULL aliases column.
LegacyEntity ==
    [id |-> "legacy", description |-> None, name |-> Text_Ac,
     canonical_name |-> Text_Ac, type |-> "ORG", aliases |-> NoAliases]

\* The keys (canonical_name.lower(), type) of a batch.
KeysOf(entities) ==
    {<<lower(entities[i].canonical_name), entities[i].entity_type>> :
        i \in DOMAIN entities}

\* The key of a row.
KeyOf(row) == <<lower(row.canonical_name), row.type>>

\* The elements of a list without the repetitions, each where it comes first.
DistinctInOrder(list) ==
    LET first == {i \in DOMAIN list : \A j \in DOMAIN list : list[j] = list[i] => i <= j}
        nth(k) == CHOOSE i \in first : Cardinality({j \in first : j < i}) = k - 1
    IN  [k \in 1..Cardinality(first) |-> list[nth(k)]]

\* The surface forms observed so far for each pair, in order of first
\* observation, after a batch was handed over.
Observed(forms, entities) ==
    [key \in DOMAIN forms \cup KeysOf(entities) |->
        DistinctInOrder(
            (IF key \in DOMAIN forms THEN forms[key] ELSE <<>>)
            \o [k \in 1..Cardinality({i \in DOMAIN entities :
                                         <<lower(entities[i].canonical_name),
                                           entities[i].entity_type>> = key}) |->
                  entities[CHOOSE i \in DOMAIN entities :
                      /\ <<lower(entities[i].canonical_name),
                           entities[i].entity_type>> = key
                      /\ Cardinality({j \in 1..i :
                             <<lower(entities[j].canonical_name),
                               entities[j].entity_type>> = key}) = k].name])]

EntitiesInit ==
    /\ graph = EmptyGraph
    /\ seen = {}
    /\ deletes = NoDelete
    /\ planned = <<>>
    /\ SyncUnused
    /\ IngestUnused
    /\ QueryUnused
    /\ pg_entities \in {{}, {LegacyEntity}}
    /\ upserts = [entities |-> <<>>, op |-> None, raised |-> FALSE, before |-> pg_entities,
                  pairs |-> {}, forms |-> <<>>, calls |-> 0]

\* What a call leaves behind: the session and the observation of the call.
EntityCalled(op, entities, after) ==
    /\ pg_entities' = after.rows
    /\ graph' = after.graph
    /\ uuids' = after.drawn
    /\ upserts' = [entities |-> entities,
                   op |-> op,
                   raised |-> after.raised, before |-> pg_entities,
                   pairs |-> upserts.pairs \cup KeysOf(entities), forms |-> Observed(upserts.forms, entities),
                   calls |-> upserts.calls + 1]
    /\ UNCHANGED <<seen, deletes, syncVars, queryVars, redis, documents, published,
                   call, answers, plannerVars>>

UpsertEntity(spec, neo4j_session) ==
    /\ upserts.calls < MaxUpserts
    /\ EntityCalled("upsert_entity", <<spec>>,
                    upsert_entity(EntitySession(pg_entities, graph, uuids, None, FALSE),
                                  spec.name, spec.canonical_name, spec.entity_type,
                                  spec.description, neo4j_session))

BulkUpsertEntities(entities, neo4j_session) ==
    /\ upserts.calls < MaxUpserts
    /\ EntityCalled("bulk_upsert_entities", entities,
                    bulk_upsert_entities(
                        EntitySession(pg_entities, graph, uuids, None, FALSE),
                        entities, neo4j_session))

EntitiesNext ==
    \/ \E spec \in EntitySpecs, neo4j_session \in BOOLEAN :
          UpsertEntity(spec, neo4j_session)
    \/ \E entities \in EntityBatches, neo4j_session \in BOOLEAN :
          BulkUpsertEntities(entities, neo4j_session)

SpecEntities == EntitiesInit /\ [][EntitiesNext]_vars

\* The rows of a table with the given key.
RowsOf(rows, key) == {r \in rows : KeyOf(r) = key}

\* C21: after any sequence of upsert_entity and bulk_upsert_entities calls
\* the table holds exactly one row for each (lower-cased canonical_name, type)
\* pair that was ever upserted, and a call inserts a row only for the pairs
\* that had none.
C21_OneRowPerPair ==
    /\ \A key \in upserts.pairs : Cardinality(RowsOf(pg_entities, key)) = 1
    /\ ~upserts.raised
    /\ {r.id : r \in upserts.before} \subseteq {r.id : r \in pg_entities}
    /\ Cardinality(pg_entities) = Cardinality(upserts.before)
          + Cardinality({key \in KeysOf(upserts.entities) :
                            RowsOf(upserts.before, key) = {}})

\* A pair upserted under two spellings of its canonical name, in one batch
\* and across calls.
C21_Witness ==
    /\ upserts.calls >= 2
    /\ upserts.op = "bulk_upsert_entities"
    /\ Len(upserts.entities) = 2
    /\ Cardinality(KeysOf(upserts.entities)) = 1
    /\ upserts.entities[1].canonical_name # upserts.entities[2].canonical_name
    /\ RowsOf(upserts.before, KeyOf(LegacyEntity)) # {}
    /\ KeysOf(upserts.entities) = {KeyOf(LegacyEntity)}

\* The row the last upsert_entity call found, and the row it left.
UpsertedBefore == RowsOf(upserts.before, KeyOf([canonical_name |-> upserts.entities[1].canonical_name,
                                                type |-> upserts.entities[1].entity_type]))
UpsertedAfter == RowsOf(pg_entities, KeyOf([canonical_name |-> upserts.entities[1].canonical_name,
                                            type |-> upserts.entities[1].entity_type]))

\* An upsert_entity call for a pair that already had a row.
UpsertOfExisting ==
    /\ upserts.op = "upsert_entity"
    /\ UpsertedBefore # {}

\* C22 as stated: after upsert_entity with surface form n for a pair that
\* already has a row, that row's name is n.
C22_NameIsLastSeen ==
    UpsertOfExisting =>
        \A r \in UpsertedAfter : r.name = upserts.entities[1].name

\* C22: after upsert_entity with surface form n for a pair that already has
\* a row, that row keeps the name (and every other column) it had and its
\* aliases are the former list with n appended unless n was in it.
C22_NameIsFirstSeen ==
    UpsertOfExisting =>
        \A old \in UpsertedBefore : \A r \in UpsertedAfter :
            /\ r.name = old.name
            /\ r.aliases = _merge_aliases(old.aliases, upserts.entities[1].name)
            /\ upserts.entities[1].name \in Range(r.aliases.names)
            /\ [r EXCEPT !.aliases = old.aliases] = old

\* An upsert of an existing pair under a surface form that is not its name.
C22_Witness ==
    /\ UpsertOfExisting
    /\ \E old \in UpsertedBefore :
          /\ old.name # upserts.entities[1].name
          /\ upserts.entities[1].name \notin Range(old.aliases.names)

----------------------------------------------------------------------------
(* sync_all: the four paginated passes. *)

\* The table a pass of sync_all reads.
TableOf(S, phase) ==
    CASE phase = "events"   -> S.events
      [] phase = "entities" -> S.entities
      [] phase = "involves" -> S.event_entities
      [] phase = "causes"   -> S.causal_relations

\* The counter of SyncResult a pass adds to.
CounterOf(result, phase) ==
    CASE phase = "events"   -> result.event_nodes
      [] phase = "entities" -> result.entity_nodes
      [] phase = "involves" -> result.involves_edges
      [] phase = "causes"   -> result.causal_edges

\* How often a run upserted a row in a pass.
TimesWritten(log, phase, row) ==
    Cardinality({i \in DOMAIN log : log[i] = <<phase, row>>})

\* The passes of a sync_all run come in the order events, entities, INVOLVES,
\* CAUSES, and a completed run added the size of each table to its counter.
PassesCountedInOrder(p) ==
    /\ \A i, j \in DOMAIN proc[p].log :
          i < j => PhaseRank(proc[p].log[i][1]) <= PhaseRank(proc[p].log[j][1])
    /\ proc[p].pc = "done" =>
          \A k \in DOMAIN Phases :
              CounterOf(proc[p].result, Phases[k])
                  = Cardinality(TableOf(store, Phases[k]))

\* C23: every pass of a completed sync_all run over the unchanging store, for
\* any batch_size, upserted every row of its table exactly once and added the
\* size of the table to its counter, the passes running in the order events,
\* entities, INVOLVES, CAUSES.
C23_EveryRowOncePerPass ==
    \A p \in Procs :
        proc[p].op = "sync_all" =>
            /\ PassesCountedInOrder(p)
            /\ proc[p].pc = "done" =>
                  \A k \in DOMAIN Phases : \A row \in TableOf(store, Phases[k]) :
                      TimesWritten(proc[p].log, Phases[k], row) = 1

----------------------------------------------------------------------------
(* _ingest_text: the duplicate. *)

\* The fingerprint of the text of call c is registered in Redis.
Registered(c) == redis_get(redis, dedup_key(call[c].normalised)) \notin {None, ""}

\* C24: an ingestion detected as a duplicate has no side effect.  The call
\* that finds its fingerprint registered is answered "duplicate" in that
\* step, and neither that step nor the step that began the call writes the
\* dedup store, adds a Document row or publishes an event.
C24_DuplicateHasNoSideEffect ==
    /\ [][\A c \in IngestCallers :
            (call[c].pc = "get" /\ Registered(c) /\ call'[c] # call[c])
            => /\ call'[c].pc = "returned"
               /\ answers' = Append(answers,
                      [document_id |-> redis[dedup_key(call[c].normalised)],
                       text |-> call[c].normalised, source |-> call[c].source,
                       status |-> "duplicate", publish_failed |-> FALSE])
               /\ UNCHANGED <<redis, documents, published>>]_vars
    /\ [][\A c \in IngestCallers :
            (call[c].pc # "get" /\ call'[c].pc = "get")
            => UNCHANGED <<redis, documents, published>>]_vars
    /\ [][(answers' # answers /\ answers'[Len(answers')].status = "duplicate")
            => UNCHANGED <<redis, documents, published>>]_vars

\* A duplicate was answered and the stores hold what the first ingestion of
\* the text left: one fingerprint, one Document row, one event.
C24_Witness ==
    /\ Len(answers) = 2
    /\ answers[1].status = "processing"
    /\ ~answers[1].publish_failed
    /\ answers[2].status = "duplicate"
    /\ answers[2].document_id = answers[1].document_id
    /\ Cardinality(DOMAIN redis) = 1
    /\ Cardinality(documents) = 1
    /\ published = <<answers[1].document_id>>

----------------------------------------------------------------------------
(* handle_query: the order of the stages. *)

\* The positions of handle_query, in the order of its stages: the call, the
\* three preparations, the planner, the two awaits of synthesize, the return.
StageOrder ==
    <<"idle", "classify", "extract", "resolve", "plan", "sources", "generate",
      "returned">>

\* From one position to the next; an exception leaves synthesize; the next
\* call begins when this one has ended.
StageSteps ==
    {<<StageOrder[i], StageOrder[i + 1]>> : i \in 1..(Len(StageOrder) - 1)}
    \cup {<<"sources", "raised">>, <<"returned", "idle">>, <<"raised", "idle">>}

\* C25: handle_query runs classify intent, extract time range, resolve entity
\* filter, planner, synthesize in this order, each once; synthesize gets the
\* plan the planner returned, and handle_query returns the response
\* synthesize built from that plan.
C25_StagesInOrderPlanPassedOn ==
    /\ [][query'.pc # query.pc => <<query.pc, query'.pc>> \in StageSteps]_vars
    /\ [](query.pc = "classify" => query.intent_result = IdleQuery.intent_result)
    /\ [](query.pc \in {"classify", "extract"} => query.time_range = NoTimeRange)
    /\ [](query.pc \in {"classify", "extract", "resolve"} => query.entity_id = None)
    /\ [](query.pc \in {"classify", "extract", "resolve", "plan"}
            => query.plan = EmptyPlan /\ query.planners = <<>>)
    /\ [](query.pc \in {"sources", "generate", "returned"}
            => /\ Len(query.planners) = 1
               /\ query.plan \in run_planner(query.planners[1]))
    /\ [][query.pc \in {"sources", "generate"} /\ query'.pc # "idle"
            => query'.plan = query.plan]_vars
    /\ [](query.pc \in {"idle", "classify", "extract", "resolve", "plan",
                        "sources", "generate", "raised"}
            => query.response = NoResponse)
    /\ [](query.pc = "returned"
            => /\ query.response.events = _events_to_brief(query.plan)
               /\ query.response.causal_chain = _chain_to_links(query.plan)
               /\ query.response.confidence = round4(query.plan.confidence)
               /\ query.response.intent = query.intent_result.intent
               /\ query.response.sources = query.sources
               /\ query.response.answer.question = query.request.question)

\* A call returned the response built from a plan with events and a chain.
C25_Witness ==
    /\ query.pc = "returned"
    /\ query.plan.events # <<>>
    /\ query.plan.causal_chain # <<>>
    /\ query.response.events # <<>>
    /\ query.response.causal_chain # <<>>
    /\ query.time_range # NoTimeRange
    /\ query.entity_id # None

----------------------------------------------------------------------------
(* classify_intent *)

\* The intent name an LLM output spells, whatever its case and the white
\* space around it; None when it spells none.
SpelledIntent(raw) ==
    CASE raw \in {"CAUSAL_WHY", "TEMPORAL_RANGE", "SIMILARITY", "ENTITY_TIMELINE"} -> raw
      [] raw = " entity_timeline\n" -> "ENTITY_TIMELINE"
      [] raw = "similarity" -> "SIMILARITY"
      [] OTHER -> None

\* The call in progress is past classify_intent.
Classified == query.pc \in {"extract", "resolve", "plan", "sources", "generate",
                            "returned", "raised"}

\* C26: classify_intent never raises.  When a heuristic rule matches, the
\* result is that of the first matching rule whatever the LLM would answer;
\* when none matches, a label that spells an intent name gives that intent
\* with confidence 0.80 and method "llm", and any other label or an exception
\* of the LLM call gives SIMILARITY with confidence 0.50.
C26_LlmOnlyWithoutRuleSafeDefault ==
    /\ query.pc = "classify" => ENABLED ClassifyIntent
    /\ Classified =>
          LET question == query.request.question
              result == query.intent_result
          IN  IF question.rules # {}
              THEN /\ result.method = "heuristic"
                   /\ \E i \in question.rules :
                         /\ \A j \in question.rules : i <= j
                         /\ result.intent = _RULES[i][1]
                         /\ result.confidence = _RULES[i][2]
              ELSE IF question.llm # "raise" /\ SpelledIntent(question.llm) # None
              THEN /\ result.intent = SpelledIntent(question.llm)
                   /\ result.confidence = 80000
                   /\ result.method = "llm"
              ELSE /\ result.intent = "SIMILARITY"
                   /\ result.confidence = 50000

\* No rule matched and the LLM call raised: the call went on with the
\* default.
C26_Witness ==
    /\ query.pc = "returned"
    /\ query.request.question.rules = {}
    /\ query.request.question.llm = "raise"
    /\ query.intent_result = IntentResult("SIMILARITY", 50000, "llm")
    /\ query.planners = <<"similarity">>

----------------------------------------------------------------------------
(* app/query/temporal_extractor.py: _spans_to_time_range.  A datetime is   *)
(* one of Timestamps, ordered by its position there.                        *)

\* TemporalSpan(text, ts_start, ts_end, is_range), without the text.
TemporalSpan(ts_start, ts_end) == [ts_start |-> ts_start, ts_end |-> ts_end]

\* min() of a non-empty list of datetimes.
min_datetime(list) ==
    list[CHOOSE i \in DOMAIN list :
            \A j \in DOMAIN list : TsRank(list[i]) <= TsRank(list[j])]

\* max() of a non-empty list of datetimes.
max_datetime(list) ==
    list[CHOOSE i \in DOMAIN list :
            \A j \in DOMAIN list : TsRank(list[j]) <= TsRank(list[i])]

\* A mutation of _spans_to_time_range: the bounds are never swapped.
_spans_to_time_range_unswapped(span_list) ==
    IF span_list = <<>> THEN NoTimeRange
    ELSE TimeRange(min_datetime([i \in DOMAIN span_list |-> span_list[i].ts_start]),
                   max_datetime([i \in DOMAIN span_list |-> span_list[i].ts_end]))

\* _spans_to_time_range(spans)
_spans_to_time_range(span_list) ==
    IF span_list = <<>> THEN NoTimeRange
    ELSE LET starts == [i \in DOMAIN span_list |-> span_list[i].ts_start]
             ends == [i \in DOMAIN span_list |-> span_list[i].ts_end]
             start_dt == min_datetime(starts)
             end_dt == max_datetime(ends)
         IN  IF TsRank(end_dt) < TsRank(start_dt)
             THEN TimeRange(end_dt, start_dt)
             ELSE TimeRange(start_dt, end_dt)

(* SpecSpans: _spans_to_time_range called on any list of spans. *)

\* Bound on the number of spans in a list.
MaxSpans == 2

\* The spans, those with ts_end before ts_start included.
TemporalSpans ==
    {TemporalSpan(Timestamps[i], Timestamps[j]) :
        i \in DOMAIN Timestamps, j \in DOMAIN Timestamps}

SpanLists == UNION {[1..n -> TemporalSpans] : n \in 0..MaxSpans}

SpansInit ==
    /\ graph = EmptyGraph
    /\ seen = {}
    /\ deletes = NoDelete
    /\ planned = <<>>
    /\ SyncUnused
    /\ IngestUnused
    /\ EntityUnused
    /\ traversal = <<>>
    /\ query = <<>>
    /\ resolved = <<>>
    /\ \E span_list \in SpanLists :
          spans = [result |-> NoTimeRange, span_list |-> span_list,
                   called |-> FALSE]

SpansToTimeRange ==
    /\ ~spans.called
    /\ spans' = [spans EXCEPT !.called = TRUE,
                              !.result = _spans_to_time_range(spans.span_list)]
    /\ UNCHANGED <<graphVars, syncVars, ingestVars, entityVars, plannerVars, traversal,
                   query, resolved>>

SpansNext == SpansToTimeRange

SpecSpans == SpansInit /\ [][SpansNext]_vars

\* C28: _spans_to_time_range returns no range for the empty list; for a
\* non-empty list the range runs from the least ts_start to the greatest
\* ts_end, the two exchanged when the greatest ts_end is before the least
\* ts_start, so that start <= end.
C28_BoundingEnvelope ==
    spans.called =>
        IF spans.span_list = <<>> THEN spans.result = NoTimeRange
        ELSE LET S == {spans.span_list[i].ts_start : i \in DOMAIN spans.span_list}
                 E == {spans.span_list[i].ts_end : i \in DOMAIN spans.span_list}
                 lo == CHOOSE t \in S : \A u \in S : TsRank(t) <= TsRank(u)
                 hi == CHOOSE t \in E : \A u \in E : TsRank(u) <= TsRank(t)
             IN  /\ spans.result # NoTimeRange
                 /\ spans.result = IF TsRank(hi) < TsRank(lo)
                                   THEN [start |-> hi, end |-> lo]
                                   ELSE [start |-> lo, end |-> hi]
                 /\ TsRank(spans.result.start) <= TsRank(spans.result.end)

\* Two spans, every ts_end before every ts_start: the bounds were exchanged.
C28_Witness ==
    /\ spans.called
    /\ Len(spans.span_list) = 2
    /\ spans.span_list[1] # spans.span_list[2]
    /\ \A i, j \in DOMAIN spans.span_list :
          TsRank(spans.span_list[i].ts_end) < TsRank(spans.span_list[j].ts_start)
    /\ spans.result.start = "t1"
    /\ spans.result.end = "t2"

----------------------------------------------------------------------------
(* Stages 2 and 3 of handle_query: the explicit range and the filters that
   do not resolve. *)

\* The stages after extract_time_range returned.
AfterExtract == {"resolve", "plan", "sources", "generate", "returned", "raised"}

\* The stages after resolve_entity_filter returned.
AfterResolve == AfterExtract \ {"resolve"}

\* The entity filters that name something and match no row of any table.
UnresolvedFilters ==
    {entity_filter \in EntityFilters :
        /\ strip(entity_filter) # <<>>
        /\ \A S \in Stores :
              resolve_entity_filter(entities_of(S), entity_filter) = {None}}

\* The entity filter of the call in progress matches no row of the table.
FilterUnresolved ==
    /\ store \in Stores
    /\ query.request.entity_filter \in UnresolvedFilters

\* C27: an explicit time range is returned by extract_time_range as it is,
\* whatever NER would find in the question; without one, a question whose
\* time expressions do not resolve gives no range; an entity filter that
\* matches no entity gives no entity id; in both cases the stage returns and
\* the next stage runs.
C27_ExplicitRangeWinsUnresolvedIsNone ==
    /\ [](query.pc \in AfterExtract /\ query.request.time_range # NoTimeRange
            => query.time_range = query.request.time_range)
    /\ [](query.pc = "extract"
            => /\ \A ner \in NerRanges : ENABLED ExtractTimeRange(ner)
               /\ ENABLED ExtractTimeRange(NoTimeRange))
    /\ [][ExtractTimeRange(NoTimeRange) /\ query.request.time_range = NoTimeRange
            => query'.time_range = NoTimeRange /\ query'.pc = "resolve"]_vars
    /\ [](query.pc = "resolve" /\ FilterUnresolved => ENABLED ResolveEntityFilter)
    /\ [][query.pc = "resolve" /\ FilterUnresolved
            => query'.entity_id = None /\ query'.pc = "plan"]_vars
    /\ [](query.pc \in AfterResolve /\ FilterUnresolved => query.entity_id = None)
    /\ [](query.pc = "plan" => ENABLED RunPlanner)

\* A call with an explicit range and a filter naming no entity has returned
\* an answer computed with that range and without an entity.
C27_Witness ==
    /\ query.pc = "returned"
    /\ query.request.time_range = TimeRange("t1", "t1")
    /\ query.time_range = TimeRange("t1", "t1")
    /\ query.request.entity_filter = <<"z">>
    /\ FilterUnresolved
    /\ query.entity_id = None
    /\ query.plan # EmptyPlan

----------------------------------------------------------------------------
(* The delete operations of the graph store. *)

\* Every relationship of G has both its end nodes in G.
NoDanglingEdges(G) ==
    /\ \A r \in BagToSet(G.causes) :
          r.cause \in EventIdsOf(G) /\ r.effect \in EventIdsOf(G)
    /\ \A r \in BagToSet(G.involves) :
          r.event \in EventIdsOf(G) /\ r.entity \in EntityIdsOf(G)

\* The bag H is the bag B without the elements of the set M, the copies of
\* every other element kept.
BagWithout(H, B, M) ==
    /\ BagToSet(H) = BagToSet(B) \ M
    /\ \A x \in BagToSet(H) : CopiesIn(x, H) = CopiesIn(x, B)

\* C29: delete_event_node removes the node and every CAUSES and INVOLVES
\* relationship at it, nothing else, and returns True exactly when the node
\* existed, so that no relationship is ever left without an end node;
\* delete_causal_edge removes the relationships carrying the relation id,
\* leaves the nodes and every other relationship as they were, and returns
\* True exactly when such a relationship existed.
C29_DeletesRemoveExactlyAndReport ==
    /\ []NoDanglingEdges(graph)
    /\ [][\A event_id \in EventUuids :
            deletes'.op = "delete_event_node" /\ DeleteEventNode(event_id) =>
              LET id == _str(event_id)
              IN  /\ id \notin EventIdsOf(graph')
                  /\ BagWithout(graph'.events, graph.events, MatchEvent(graph, id))
                  /\ graph'.entities = graph.entities
                  /\ BagWithout(graph'.causes, graph.causes,
                                {r \in BagToSet(graph.causes) :
                                    r.cause = id \/ r.effect = id})
                  /\ BagWithout(graph'.involves, graph.involves,
                                {r \in BagToSet(graph.involves) : r.event = id})
                  /\ deletes'.returned = (id \in EventIdsOf(graph))]_vars
    /\ [][\A relation_id \in RelationUuids :
            deletes'.op = "delete_causal_edge" /\ DeleteCausalEdge(relation_id) =>
              LET id == _str(relation_id)
                  carrying == {r \in BagToSet(graph.causes) : r.relation_id = id}
              IN  /\ BagWithout(graph'.causes, graph.causes, carrying)
                  /\ graph'.events = graph.events
                  /\ graph'.entities = graph.entities
                  /\ graph'.involves = graph.involves
                  /\ deletes'.returned = (carrying # {})]_vars

\* delete_event_node has returned True: its node is gone with the CAUSES
\* relationships it had, while the other event keeps its INVOLVES
\* relationship.
C29_Witness ==
    /\ deletes = DeleteCall("delete_event_node", TRUE)
    /\ "overwrite" \in seen
    /\ BagCardinality(graph.events) = 1
    /\ BagCardinality(graph.involves) = 1
    /\ graph.causes = EmptyBag
    /\ NoDanglingEdges(graph)

----------------------------------------------------------------------------
(* The seed events of the causal planner. *)

\* The seed lists causal_planner.run may draw for the call in progress.
SeedsOfCall == causal_seeds(store, query.distance, query.entity_id)

\* At most _SEED_LIMIT seeds, each embedded and within _SEED_MAX_DISTANCE of
\* the question.
SeedsWithinLimits(seed_events) ==
    /\ Len(seed_events) <= _SEED_LIMIT
    /\ \A i \in DOMAIN seed_events :
          /\ query.distance[seed_events[i].id] # NoEmbedding
          /\ query.distance[seed_events[i].id] <= _SEED_MAX_DISTANCE

\* The causal planner is about to run for the call in progress.
CausalPlannerNext ==
    /\ query.pc = "plan"
    /\ dispatch(query.intent_result.intent) = <<"causal">>

\* C30: the causal planner uses at most 3 seed events, each at cosine
\* distance at most 0.8 from the question, with and without an entity
\* filter.
C30_SeedsWithinLimits ==
    CausalPlannerNext => \A seed_events \in SeedsOfCall : SeedsWithinLimits(seed_events)

\* Without an entity filter the seeds are within the limits.
C30_SeedsWithinLimitsUnfiltered ==
    CausalPlannerNext /\ query.entity_id = None
        => \A seed_events \in SeedsOfCall : SeedsWithinLimits(seed_events)

----------------------------------------------------------------------------
(* The merged chain and the event list of the causal planner. *)

\* Each event id at most once in the chain, and the hops ascending.
ChainOnceByHop(causal_chain) ==
    /\ \A i, j \in DOMAIN causal_chain :
          i # j => causal_chain[i].event_id # causal_chain[j].event_id
    /\ \A i, j \in DOMAIN causal_chain :
          i < j => causal_chain[i].hop <= causal_chain[j].hop

\* Each event at most once in the list.
EventsOnce(events) ==
    \A i, j \in DOMAIN events : i # j => events[i].id # events[j].id

\* The list starts with the seed events, in their order.
SeedsFirst(events, seed_events) ==
    /\ Len(seed_events) <= Len(events)
    /\ \A i \in DOMAIN seed_events : events[i] = seed_events[i]

\* C31: the causal chain of the causal planner holds each event id at most
\* once over the traversals of all the seeds and is sorted by hop ascending;
\* the event list holds each event at most once, the seed events first.
C31_ChainMergedEventsSeedsFirst ==
    /\ CausalPlannerNext =>
          \A seed_events \in SeedsOfCall :
             \A plan \in causal_plans(store, graph, seed_events,
                                      query.request.max_causal_hops) :
                /\ ChainOnceByHop(plan.causal_chain)
                /\ EventsOnce(plan.events)
                /\ SeedsFirst(plan.events, seed_events)
    /\ Dispatched /\ query.planners = <<"causal">> =>
          /\ ChainOnceByHop(query.plan.causal_chain)
          /\ EventsOnce(query.plan.events)

\* The causal planner returned a chain of three records that two seeds'
\* traversals share, one of them at hop 2, and three events.
C31_Witness ==
    /\ Dispatched
    /\ query.planners = <<"causal">>
    /\ Len(query.plan.causal_chain) = 3
    /\ query.plan.causal_chain[3].hop = 2
    /\ query.plan.causal_chain[3].event_id = _str("e2")
    /\ Len(query.plan.events) = 3
    /\ query.distance["e2"] = NoEmbedding

----------------------------------------------------------------------------
(* SpecPlanners: similarity_planner.run and entity_planner.run called on
   their own, with any arguments, on a relational store and a graph that do
   not change. *)

\* Bound on the limit argument of similarity_planner.run.
MaxLimit == 2

\* The entity_id argument: none, or a row of the entities table.
PlannerEntityIds == {None} \cup {n.id : n \in EntityRows}

\* The time_range argument.
PlannerTimeRanges == TimeRanges \cup NerRanges

\* A planner call: its arguments, the fetch limit it asked the vector search
\* for, the CAUSES edges the graph returned to it, its statements and its
\* result.
PlannerCall(planner, distance, entity_id, time_range, limit, fetch_limit,
            edges, statements, plan) ==
    [entity_id |-> entity_id, limit |-> limit, edges |-> edges,
     distance |-> distance, time_range |-> time_range, fetch_limit |-> fetch_limit,
     plan |-> plan, statements |-> statements, planner |-> planner]

NoDistance == [e \in {"e1", "e2", "e3"} |-> NoEmbedding]

\* The graphs a store may stand beside: its projection, a graph not yet
\* filled, and one where the first entity is involved in every event.
PlannerGraphs(S) ==
    {Projection(S), EmptyGraph,
     upsert_involves_edge(upsert_involves_edge(Projection(S), "e2", "n1"),
                          "e3", "n1")}

PlannersInit ==
    /\ store \in Stores
    /\ graph \in PlannerGraphs(store)
    /\ seen = {}
    /\ deletes = NoDelete
    /\ qorder = <<>> /\ runs = 0 /\ proc = <<>> /\ obs = <<>> /\ graph0 = EmptyGraph
    /\ IngestUnused
    /\ QueryUnused
    /\ EntityUnused
    /\ planned = PlannerCall(None, NoDistance, None, NoTimeRange, 0, 0, <<>>,
                             <<>>, EmptyPlan)

plannersFrame ==
    <<graphVars, syncVars, ingestVars, queryVars, entityVars>>

\* similarity_planner.run(pg_session, question, entity_id, time_range, limit)
RunSimilarityPlanner(distance, entity_id, time_range, limit) ==
    /\ \E plan \in similarity_planner(store, distance, entity_id, time_range, limit) :
          planned' = PlannerCall("similarity", distance, entity_id, time_range, limit,
                                 similarity_fetch_limit(entity_id, time_range, limit),
                                 <<>>,
                                 planner_statements("similarity", entity_id, plan),
                                 plan)
    /\ UNCHANGED plannersFrame

\* entity_planner.run(pg_session, neo4j_session, entity_id, time_range)
RunEntityPlanner(entity_id, time_range) ==
    /\ IF entity_id = None
       THEN \E plan \in entity_planner(store, graph, entity_id, time_range) :
               planned' = PlannerCall("entity", NoDistance, entity_id, time_range,
                                      50, 0, <<>>,
                                      planner_statements("entity", entity_id, plan),
                                      plan)
       ELSE \E events \in list_events(store, entity_id, time_range.start,
                                      time_range.end, 50),
               graph_data \in get_entity_graph(graph, entity_id, 50) :
               planned' = PlannerCall("entity", NoDistance, entity_id, time_range,
                                      50, 0, graph_data.edges,
                                      planner_statements("entity", entity_id,
                                                         entity_plan(events, graph_data)),
                                      entity_plan(events, graph_data))
    /\ UNCHANGED plannersFrame

PlannersNext ==
    \/ \E distance \in Distances, entity_id \in PlannerEntityIds,
          time_range \in PlannerTimeRanges, limit \in 1..MaxLimit :
          RunSimilarityPlanner(distance, entity_id, time_range, limit)
    \/ \E entity_id \in PlannerEntityIds, time_range \in PlannerTimeRanges :
          RunEntityPlanner(entity_id, time_range)

SpecPlanners == PlannersInit /\ [][PlannersNext]_vars

\* The mean of 1 - distance over the events, to four decimal places.
MeanSimilarity(events, distance) ==
    ((Sum([i \in DOMAIN events |-> Unit - distance[events[i].id]]) \div Len(events)
      + 5) \div 10) * 10

\* C32: the similarity planner returns at most limit events, nearest first;
\* each is linked to the entity when an entity id is given and has a start
\* time inside the window, bounds included, when a time range is given; it
\* asks the vector search for 3 * limit candidates when a filter is present
\* and for limit otherwise; its confidence is the mean of 1 - distance over
\* the returned events (to four decimal places), 0 when there is none, and
\* lies in [0, 1].
C32_SimilarityPlanFilteredTrimmed ==
    planned.planner = "similarity" =>
        LET events == planned.plan.events
            d == planned.distance
        IN  /\ Len(events) <= planned.limit
            /\ \A i, j \in DOMAIN events : i < j => d[events[i].id] <= d[events[j].id]
            /\ \A i \in DOMAIN events : events[i] \in store.events
            /\ planned.entity_id # None =>
                  \A i \in DOMAIN events :
                     \E l \in store.event_entities :
                        l.event_id = events[i].id /\ l.entity_id = planned.entity_id
            /\ planned.time_range # NoTimeRange =>
                  \A i \in DOMAIN events :
                     /\ events[i].ts_start # None
                     /\ TsRank(planned.time_range.start) <= TsRank(events[i].ts_start)
                     /\ TsRank(events[i].ts_start) <= TsRank(planned.time_range.end)
            /\ planned.fetch_limit =
                  IF planned.entity_id = None /\ planned.time_range = NoTimeRange
                  THEN planned.limit ELSE 3 * planned.limit
            /\ planned.plan.confidence =
                  IF events = <<>> THEN 0 ELSE MeanSimilarity(events, d)
            /\ planned.plan.confidence >= 0
            /\ planned.plan.confidence <= Unit

\* limit = 1 with an entity filter: the one event returned is the third
\* nearest, which only the headroom of the fetch brought in; its start time
\* is the end of the window.
C32_Witness ==
    /\ planned.planner = "similarity"
    /\ planned.limit = 1
    /\ planned.fetch_limit = 3
    /\ planned.entity_id = "n2"
    /\ planned.time_range = TimeRange("t1", "t2")
    /\ Len(planned.plan.events) = 1
    /\ planned.plan.events[1].id = "e3"
    /\ planned.distance["e3"] = 85000
    /\ planned.plan.confidence = 15000

\* The event ids a list of CAUSES edges refers to.
ReferencedIds(edges) ==
    {edges[i].cause : i \in DOMAIN edges} \cup {edges[i].effect : i \in DOMAIN edges}

\* The rows of the events table that list_events selects for the call.
TimelineRows ==
    {e \in store.events :
        /\ \E l \in store.event_entities :
              l.event_id = e.id /\ l.entity_id = planned.entity_id
        /\ planned.time_range # NoTimeRange =>
              /\ e.ts_start # None
              /\ TsRank(planned.time_range.start) <= TsRank(e.ts_start)
              /\ TsRank(e.ts_start) <= TsRank(planned.time_range.end)}

\* C33: the entity-timeline planner called without an entity id returns the
\* empty result with confidence 0 and sends no statement to either store;
\* with an entity id its confidence is 0.88 when the relational event list
\* is not empty and 0 otherwise, and its causal chain has one record for
\* each event id that a returned CAUSES edge refers to, none repeated.
C33_EntityPlanShortCircuitAndChain ==
    planned.planner = "entity" =>
        IF planned.entity_id = None
        THEN /\ planned.plan.events = <<>>
             /\ planned.plan.causal_chain = <<>>
             /\ planned.plan.document_ids = {}
             /\ planned.plan.confidence = 0
             /\ planned.statements = <<>>
        ELSE LET chain == planned.plan.causal_chain
             IN  /\ {planned.plan.events[i] : i \in DOMAIN planned.plan.events}
                       = TimelineRows
                 /\ planned.plan.confidence =
                       IF planned.plan.events # <<>> THEN 88000 ELSE 0
                 /\ {chain[i].event_id : i \in DOMAIN chain} = ReferencedIds(planned.edges)
                 /\ Len(chain) = Cardinality(ReferencedIds(planned.edges))
                 /\ planned.statements # <<>>

\* Two CAUSES edges that share an event were returned: the chain has three
\* records for their four ends, and the relational list is not empty.
C33_Witness ==
    /\ planned.planner = "entity"
    /\ planned.entity_id = "n1"
    /\ Len(planned.edges) = 2
    /\ Len(planned.plan.causal_chain) = 3
    /\ Len(planned.plan.events) = 2
    /\ planned.plan.confidence = 88000

----------------------------------------------------------------------------
(* The alias list of an entity. *)

\* C34: after any sequence of upsert_entity and bulk_upsert_entities calls
\* the alias list of the row of a pair holds each distinct surface form
\* observed for the pair exactly once, in order of first observation;
\* merging a name that is in the list leaves the list as it is.
C34_AliasesAreObservedFormsInOrder ==
    /\ \A key \in DOMAIN upserts.forms :
          \A r \in RowsOf(pg_entities, key) :
             /\ r.aliases.json = "array"
             /\ r.aliases.names = upserts.forms[key]
             /\ \A i, j \in DOMAIN r.aliases.names :
                   i # j => r.aliases.names[i] # r.aliases.names[j]
    /\ \A r \in pg_entities :
          \A i \in DOMAIN r.aliases.names :
             _merge_aliases(r.aliases, r.aliases.names[i]) = r.aliases

\* A third call observes again the first of two surface forms of a pair: the
\* list of two names stays as it was.
C34_Witness ==
    /\ upserts.calls = 3
    /\ upserts.op = "upsert_entity"
    /\ \E old \in UpsertedBefore :
          /\ Len(old.aliases.names) = 2
          /\ upserts.entities[1].name = old.aliases.names[1]
          /\ \A r \in UpsertedAfter : r.aliases = old.aliases

\* The documents of the relational store S that have at least one Event row;
\* sync_document for any other document returns before its first write.
DocumentsWithEvents(S) == {e.document_id : e \in S.events}

\* The CAUSES relationship of the CausalRelation row rel is in graph G.
HasCausesEdge(G, rel) ==
    \E r \in BagToSet(G.causes) :
        /\ r.relation_id = _str(rel.id)
        /\ r.cause = _str(rel.cause_event_id)
        /\ r.effect = _str(rel.effect_event_id)

\* Process p ran its sync_document to completion before process q started
\* its own: q started from the graph that the writes of p left.
RanBefore(p, q) ==
    /\ p # q
    /\ proc[p].pc = "done"
    /\ obs[q].g0 = ApplyWrites(obs[p].g0, proc[p].log)

\* sync_document has run to completion, one run after the other, for every
\* document that has events.
EveryDocumentSynced ==
    /\ \A p \in Procs : proc[p].op = "sync_document" /\ proc[p].pc = "done"
    /\ \E p, q \in Procs : RanBefore(p, q)
    /\ DocumentsWithEvents(store) \subseteq {proc[p].doc : p \in Procs}

\* C35: once sync_document has run to completion once for every document,
\* in any order, the graph has a CAUSES relationship for every
\* CausalRelation row of the relational store, the rows whose cause and
\* effect events belong to different documents included.
C35_EveryCausalRowHasEdge ==
    EveryDocumentSynced
    => \A rel \in store.causal_relations : HasCausesEdge(graph, rel)

\* The same runs do leave the CAUSES relationship of every CausalRelation
\* row whose cause and effect events belong to one document.
C35_SameDocumentRowsHaveEdge ==
    EveryDocumentSynced
    => \A rel \in store.causal_relations :
          (\E d \in DocUuids :
              {rel.cause_event_id, rel.effect_event_id}
                  \subseteq {e.id : e \in {x \in store.events :
                                                x.document_id = d}})
          => HasCausesEdge(graph, rel)

----------------------------------------------------------------------------
(* SpecSessions: upsert_entity called once in each of several sessions that *)
(* run concurrently.  Each await of the call is a step: the SELECT, the     *)
(* flush of the merge or of the INSERT, the graph mirror.  A flushed row is *)
(* taken as visible to the other sessions at once, the earliest that any    *)
(* transaction isolation allows.  In this specification upserts holds, for  *)
(* each session, the position of its call.                                  *)

\* Bound on the number of concurrent sessions.
MaxSessions == 2

Sessions == 1..MaxSessions

\* A session: the arguments of its call, the statement it is at, the rows its
\* SELECT returned, the Entity it holds and whether the call raised.
SessionCall(pc, spec, neo4j_session, found, entity, raised) ==
    [entity |-> entity, pc |-> pc, raised |-> raised,
     found |-> found, neo4j_session |-> neo4j_session, spec |-> spec]

NoSpec == [description |-> None, name |-> <<>>, canonical_name |-> <<>>,
           entity_type |-> None]

NoEntity == [id |-> None, description |-> None, name |-> <<>>,
             canonical_name |-> <<>>, type |-> None, aliases |-> NoAliases]

IdleSession == SessionCall("idle", NoSpec, FALSE, {}, NoEntity, FALSE)

SessionsInit ==
    /\ graph = EmptyGraph
    /\ seen = {}
    /\ deletes = NoDelete
    /\ planned = <<>>
    /\ SyncUnused
    /\ IngestUnused
    /\ QueryUnused
    /\ pg_entities \in {{}, {LegacyEntity}}
    /\ upserts = [s \in Sessions |-> IdleSession]

sessionsFrame == <<seen, deletes, syncVars, queryVars, redis, documents,
                   published, call, answers, plannerVars>>

\* result = await pg_session.execute(stmt); result.scalar_one_or_none()
SessionSelect(s, spec, neo4j_session) ==
    /\ upserts[s].pc = "idle"
    /\ LET found == select_entity(pg_entities, spec.canonical_name,
                                  spec.entity_type)
           raised == Cardinality(found) > 1
       IN  upserts' = [upserts EXCEPT ![s] =
                          SessionCall(IF raised THEN "done" ELSE "flush",
                                      spec, neo4j_session, found, NoEntity,
                                      raised)]
    /\ UNCHANGED <<graph, pg_entities, uuids, sessionsFrame>>

\* await pg_session.flush(): the UPDATE of the aliases of the row the SELECT
\* returned, merged from the aliases the session loaded, or the INSERT of a
\* new Entity.
SessionFlush(s) ==
    /\ upserts[s].pc = "flush"
    /\ LET me == upserts[s]
           loaded == CHOOSE r \in me.found : TRUE
           entity == IF me.found # {}
                     THEN merge_entity(loaded, me.spec.name)
                     ELSE Entity(uuid4(uuids), me.spec.name,
                                 me.spec.canonical_name, me.spec.entity_type,
                                 me.spec.description)
       IN  /\ pg_entities' = {r \in pg_entities : r.id # entity.id}
                                 \cup {entity}
           /\ uuids' = IF me.found # {} THEN uuids ELSE uuids + 1
           /\ upserts' = [upserts EXCEPT ![s] =
                             [me EXCEPT !.entity = entity,
                                        !.pc = IF me.neo4j_session
                                               THEN "mirror" ELSE "done"]]
    /\ UNCHANGED <<graph, sessionsFrame>>

\* await graph_store.upsert_entity_node(neo4j_session, ...)
SessionMirror(s) ==
    /\ upserts[s].pc = "mirror"
    /\ LET entity == upserts[s].entity
       IN  graph' = upsert_entity_node(graph, entity.id, entity.name,
                                       entity.canonical_name, entity.type)
    /\ upserts' = [upserts EXCEPT ![s].pc = "done"]
    /\ UNCHANGED <<pg_entities, uuids, sessionsFrame>>

SessionsNext ==
    \/ \E s \in Sessions, spec \in EntitySpecs, neo4j_session \in BOOLEAN :
          SessionSelect(s, spec, neo4j_session)
    \/ \E s \in Sessions : SessionFlush(s)
    \/ \E s \in Sessions : SessionMirror(s)

SpecSessions == SessionsInit /\ [][SessionsNext]_vars

\* The key (canonical_name.lower(), type) of the call of session s.
SessionKey(s) ==
    <<lower(upserts[s].spec.canonical_name), upserts[s].spec.entity_type>>

\* Two sessions upserted the same pair and both calls have returned.
SamePairUpserted(s, t) ==
    /\ s # t
    /\ upserts[s].pc = "done"
    /\ upserts[t].pc = "done"
    /\ SessionKey(s) = SessionKey(t)

\* C36: when two upsert_entity calls for the same (lower-cased
\* canonical_name, type) pair run concurrently in different sessions, every
\* interleaving of their lookup and insert steps ends with exactly one
\* Entity row for that pair.
C36_OneRowPerPairConcurrently ==
    \A s, t \in Sessions :
        SamePairUpserted(s, t)
        => Cardinality(RowsOf(pg_entities, SessionKey(s))) = 1

\* What the interleavings do end with: the rows of a pair are the row that
\* was there before, if any, and one row for each call whose SELECT found
\* none.
C36_OneRowPerCallThatFoundNone ==
    \A s \in Sessions :
        upserts[s].pc # "idle"
        => Cardinality(RowsOf(pg_entities, SessionKey(s)))
              = Cardinality(RowsOf({r \in pg_entities : r.id = LegacyEntity.id},
                                   SessionKey(s)))
                + Cardinality({t \in Sessions :
                                  /\ upserts[t].pc \in {"mirror", "done"}
                                  /\ ~upserts[t].raised
                                  /\ upserts[t].found = {}
                                  /\ SessionKey(t) = SessionKey(s)})

----------------------------------------------------------------------------
(* SpecIngestConcurrent: _ingest_text called by several requests at once;   *)
(* the calls interleave at their awaits (redis.get, redis.set, the flush,   *)
(* the publish).                                                            *)

IngestConcurrentNext ==
    \/ \E c \in IngestCallers, raw_text \in RawTexts, source \in Sources :
          IngestText(c, raw_text, source)
    \/ \E c \in IngestCallers : CheckFingerprint(c)
    \/ \E c \in IngestCallers : RegisterFingerprint(c)
    \/ \E c \in IngestCallers, flushed \in BOOLEAN : PersistDocument(c, flushed)
    \/ \E c \in IngestCallers, sent \in BOOLEAN : PublishEvent(c, sent)

SpecIngestConcurrent == IngestInit /\ [][IngestConcurrentNext]_vars

\* The answers given so far to the ingestions of a text, by status.
AnsweredWith(text, status) ==
    {i \in DOMAIN answers : answers[i].text = text /\ answers[i].status = status}

\* The Document rows persisted for a text.
DocumentsOf(text) == {d \in documents : d.raw_text = text}

\* C37: when several ingestions of the same normalised text run
\* concurrently, in every interleaving of their dedup lookup and
\* registration steps at most one of them is answered "processing" and at
\* most one Document row is persisted for the text; all the others are
\* answered "duplicate" with the persisted document's id.
C37_AtMostOneProcessingPerText ==
    \A i \in DOMAIN answers :
        LET text == answers[i].text
        IN  /\ Cardinality(AnsweredWith(text, "processing")) <= 1
            /\ Cardinality(DocumentsOf(text)) <= 1
            /\ answers[i].status = "duplicate"
                  => \A d \in DocumentsOf(text) : d.id = answers[i].document_id

\* The document ids whose Document row was persisted.
PersistedIds == {d.id : d \in documents}

\* The document ids of the calls that registered their fingerprint and have
\* not reached the end of their persistence step yet.
PersistingIds == {call[c].new_doc_id : c \in {k \in IngestCallers : call[k].pc = "flush"}}

\* C38: every document id returned with status "duplicate" identifies a
\* Document row that was persisted, and no fingerprint stays registered for
\* a document id whose persistence step failed after the registration.
C38_DuplicateIdIsPersisted ==
    /\ \A i \in DOMAIN answers :
          answers[i].status = "duplicate"
          => answers[i].document_id \in PersistedIds
    /\ \A key \in DOMAIN redis : redis[key] \in PersistedIds \cup PersistingIds

\* With no failure of the persistence step so far, the non-overlapping calls
\* do return only persisted ids as duplicates.
C38_PersistedWhenNoFlushFailed ==
    (\A i \in DOMAIN answers : answers[i].status # "raised")
    => C38_DuplicateIdIsPersisted

----------------------------------------------------------------------------
(* SpecSyncChanging: one sync_all run while other transactions insert rows  *)
(* into and delete rows from the event_entities and causal_relations        *)
(* tables, each while the run is in the pass that reads it.  Every page of  *)
(* the run is a query of its own and sees the rows committed when it is     *)
(* made.  In this specification seen holds the changes made to the tables   *)
(* since the run started.                                                   *)

\* The tables that change and the pass of sync_all that reads each.
ChangingTables == {"event_entities", "causal_relations"}

PassOf(table) == IF table = "event_entities" THEN "involves" ELSE "causes"

\* The rows other transactions insert: a link whose key sorts between the
\* keys of the table, a causal relation created after all the others.
InsertedRows(table) ==
    IF table = "event_entities" THEN {Link("e2", "n2")}
    ELSE {Rel("r3", "e2", "e3", 1, 3)}

\* Bound on the number of changes made to the tables during the run.
MaxChanges == 2

\* A sync_all run is in the pass that reads the table.
InPassOf(table) ==
    \E p \in Sequential : /\ proc[p].pc \in {"fetch", "write"}
                          /\ proc[p].phase = PassOf(table)

\* The change of a table by a committed transaction: the queries made from
\* now on see it, and an earlier answer promises nothing about theirs.
TableChanged(op, table, row, rows) ==
    /\ InPassOf(table)
    /\ Cardinality(seen) < MaxChanges
    /\ store' = [store EXCEPT ![table] = rows]
    /\ seen' = seen \cup {<<op, table, row>>}
    /\ qorder' = <<>>
    /\ UNCHANGED <<graph, deletes, runs, proc, obs, graph0, ingestVars,
                   queryVars, entityVars, plannerVars>>

\* INSERT of a row into a table by another transaction.
InsertRow(table, row) ==
    /\ row \notin store[table]
    /\ TableChanged("insert", table, row, store[table] \cup {row})

\* DELETE of a row of a table by another transaction.
DeleteRow(table, row) ==
    /\ row \in store[table]
    /\ TableChanged("delete", table, row, store[table] \ {row})

SyncChangingNext ==
    \/ \E p \in Sequential, b \in 1..MaxBatchSize :
          proc[p].pc = "idle" /\ StartSyncAll(p, b)
    \/ \E p \in Sequential : WriteEventNode(p)
    \/ \E p \in Sequential : WriteEntityNode(p)
    \/ \E p \in Sequential : WriteInvolvesEdge(p)
    \/ \E p \in Sequential : WriteCausalEdge(p)
    \/ \E p \in Sequential : AllFetch(p)
    \/ \E p \in Sequential : AllPageDone(p)
    \/ \E table \in ChangingTables :
          \E row \in InsertedRows(table) : InsertRow(table, row)
    \/ \E table \in ChangingTables :
          \E row \in store[table] : DeleteRow(table, row)

SpecSyncChanging == SyncInit /\ [][SyncChangingNext]_vars

\* The rows of a table that were in it for the whole duration of the run:
\* the rows it has now that were neither inserted nor deleted meanwhile.
StableRows(table) ==
    {row \in store[table] :
        \A op \in {"insert", "delete"} : <<op, table, row>> \notin seen}

\* The rows the run of process p upserted in a pass.
UpsertedIn(p, phase) ==
    {proc[p].log[i][2] : i \in {j \in DOMAIN proc[p].log :
                                   proc[p].log[j][1] = phase}}

\* C39: a sync_all run that executes while other rows of the same table are
\* inserted or deleted upserts, at least once, every row that is in the
\* table for the whole duration of the run.
C39_StableRowsUpserted ==
    \A p \in Sequential :
        (proc[p].op = "sync_all" /\ proc[p].pc = "done")
        => \A table \in ChangingTables :
              StableRows(table) \subseteq UpsertedIn(p, PassOf(table))

\* When the other transactions only inserted, the run did upsert every row
\* that was in the table throughout.
C39_StableRowsUpsertedWhenOnlyInserts ==
    (\A change \in seen : change[1] = "insert") => C39_StableRowsUpserted
====
